---------------------------- MODULE Spec2Model ----------------------------
(***************************************************************************)
(* libsdi12: the SDI-12 sensor engine (sdi12_sensor.c) as a state machine. *)
(*                                                                         *)
(* Bytes are ASCII codes (naturals); commands and responses are sequences  *)
(* of bytes.  A measurement value {float value, uint8 decimals} is kept    *)
(* for the floats that are exact in binary with one fractional bit: the    *)
(* field value holds twice the float (an integer count of halves).         *)
(* ctx.data_cache holds the first data_cache_count entries of the C array  *)
(* (no code path reads an entry at or beyond data_cache_count), so         *)
(* data_cache_count is Len(ctx.data_cache).                                *)
(***************************************************************************)
EXTENDS Integers, Sequences, FiniteSets, TLC

(***************************************************************************)
(* Characters                                                              *)
(***************************************************************************)
DigitChars == <<"0", "1", "2", "3", "4", "5", "6", "7", "8", "9">>
UpperChars == <<"A", "B", "C", "D", "E", "F", "G", "H", "I", "J", "K", "L", "M",
                "N", "O", "P", "Q", "R", "S", "T", "U", "V", "W", "X", "Y", "Z">>
LowerChars == <<"a", "b", "c", "d", "e", "f", "g", "h", "i", "j", "k", "l", "m",
                "n", "o", "p", "q", "r", "s", "t", "u", "v", "w", "x", "y", "z">>
PunctChars == ("!" :> 33) @@ ("$" :> 36) @@ ("%" :> 37) @@ ("+" :> 43) @@
              ("," :> 44) @@ ("-" :> 45) @@ ("." :> 46) @@ (":" :> 58) @@
              (";" :> 59) @@ ("?" :> 63) @@ ("_" :> 95) @@ (" " :> 32)

\* ASCII code of a one-character string.
Asc(ch) ==
    IF \E i \in 1..10 : DigitChars[i] = ch
    THEN 47 + (CHOOSE i \in 1..10 : DigitChars[i] = ch)
    ELSE IF \E i \in 1..26 : UpperChars[i] = ch
    THEN 64 + (CHOOSE i \in 1..26 : UpperChars[i] = ch)
    ELSE IF \E i \in 1..26 : LowerChars[i] = ch
    THEN 96 + (CHOOSE i \in 1..26 : LowerChars[i] = ch)
    ELSE PunctChars[ch]

\* The byte string of a tuple of one-character strings.
Str(t) == [i \in 1..Len(t) |-> Asc(t[i])]

CRLF == <<13, 10>>

IsDigit(c)  == c >= 48 /\ c <= 57
IsDigit19(c) == c >= 49 /\ c <= 57

\* sdi12_valid_address: '0'-'9', 'A'-'Z', 'a'-'z'.
sdi12_valid_address(c) ==
    \/ (c >= 48 /\ c <= 57)
    \/ (c >= 65 /\ c <= 90)
    \/ (c >= 97 /\ c <= 122)

\* isprint in the C locale.
isprint(c) == c >= 32 /\ c <= 126

(***************************************************************************)
(* Program constants and enumerations                                      *)
(***************************************************************************)
SDI12_MAX_PARAMS == 20
SDI12_MAX_XCMDS == 8
SDI12_MAX_MEAS_GROUPS == 10
SDI12_M_VALUES_MAX_CHARS == 35
SDI12_C_VALUES_MAX_CHARS == 75
SDI12_VALUE_MAX_CHARS == 9
SDI12_MAX_RESPONSE_LEN == 82

SDI12_STATE_READY       == "READY"
SDI12_STATE_MEASURING   == "MEASURING"
SDI12_STATE_MEASURING_C == "MEASURING_C"
SDI12_STATE_DATA_READY  == "DATA_READY"
SensorStates == {SDI12_STATE_READY, SDI12_STATE_MEASURING,
                 SDI12_STATE_MEASURING_C, SDI12_STATE_DATA_READY}

SDI12_MEAS_STANDARD       == "STANDARD"
SDI12_MEAS_CONCURRENT     == "CONCURRENT"
SDI12_MEAS_HIGHVOL_ASCII  == "HIGHVOL_ASCII"
SDI12_MEAS_HIGHVOL_BINARY == "HIGHVOL_BINARY"
SDI12_MEAS_VERIFICATION   == "VERIFICATION"
SDI12_MEAS_CONTINUOUS     == "CONTINUOUS"

SDI12_OK                  == "OK"
SDI12_ERR_INVALID_ADDRESS == "ERR_INVALID_ADDRESS"
SDI12_ERR_INVALID_COMMAND == "ERR_INVALID_COMMAND"
SDI12_ERR_BUFFER_OVERFLOW == "ERR_BUFFER_OVERFLOW"
SDI12_ERR_NOT_ADDRESSED   == "ERR_NOT_ADDRESSED"
SDI12_ERR_PARAM_LIMIT     == "ERR_PARAM_LIMIT"
SDI12_ERR_ABORTED         == "ERR_ABORTED"

(***************************************************************************)
(* Small helpers on numbers and byte strings                               *)
(***************************************************************************)
Min(a, b) == IF a < b THEN a ELSE b

RECURSIVE DecDigits(_)
\* printf("%lu") / "%u": the decimal digits of a natural, no padding.
DecDigits(n) ==
    IF n < 10 THEN <<48 + n>> ELSE Append(DecDigits(n \div 10), 48 + (n % 10))

RECURSIVE ZeroPad(_, _)
\* printf("%0wu"): the digits left-padded with '0' to at least w characters.
ZeroPad(n, w) ==
    LET d == DecDigits(n)
    IN  IF Len(d) >= w THEN d ELSE <<48>> \o ZeroPad(n, w - 1)

Zeros(k) == [i \in 1..k |-> 48]

\* snprintf into a buffer of buflen bytes: at most buflen - 1 bytes are kept.
Truncate(s, buflen) == IF Len(s) > buflen - 1 THEN SubSeq(s, 1, buflen - 1) ELSE s

\* The byte at C index i (0-based) of cmd, or NUL when i is the terminator.
At(cmd, i) == IF i < Len(cmd) THEN cmd[i + 1] ELSE 0


(***************************************************************************)
(* CRC-16-IBM codec (sdi12_crc.c)                                          *)
(***************************************************************************)
RECURSIVE XorBits(_, _, _)
\* Bitwise exclusive or of two naturals below 2^bits, bit by bit.
XorBits(a, b, bits) ==
    IF bits = 0 THEN 0
    ELSE ((a + b) % 2) + 2 * XorBits(a \div 2, b \div 2, bits - 1)

\* The exclusive or of two 4-bit numbers, tabulated.
XorNibble == [a \in 0..15 |-> [b \in 0..15 |-> XorBits(a, b, 4)]]

RECURSIVE Xor(_, _, _)
\* Bitwise exclusive or of two naturals below 2^bits (bits a multiple of 4).
Xor(a, b, bits) ==
    IF bits = 0 THEN 0
    ELSE XorNibble[a % 16][b % 16] + 16 * Xor(a \div 16, b \div 16, bits - 4)

RECURSIVE CrcShift(_, _)
\* The inner loop of sdi12_crc16: `bit` more shifts of the 16-bit register.
CrcShift(crc, bit) ==
    IF bit = 0 THEN crc
    ELSE IF crc % 2 = 1
         THEN CrcShift(Xor(crc \div 2, 40961, 16), bit - 1)
         ELSE CrcShift(crc \div 2, bit - 1)

RECURSIVE CrcRange(_, _, _, _)
\* The outer loop of sdi12_crc16 over data[lo..hi], entered with register crc.
\* The bytes are taken in order; the range is halved only to keep the
\* evaluation shallow (the register, a natural, is computed before going on).
CrcRange(crc, data, lo, hi) ==
    IF lo > hi THEN crc
    ELSE IF lo = hi THEN CrcShift(Xor(crc, data[lo], 16), 8)
    ELSE LET mid  == (lo + hi) \div 2
             left == CrcRange(crc, data, lo, mid)
         IN  IF left >= 0 THEN CrcRange(left, data, mid + 1, hi) ELSE 0

\* sdi12_crc16 over all the bytes of data, initial value 0.
sdi12_crc16(data) == CrcRange(0, data, 1, Len(data))

\* sdi12_crc_encode_ascii: three printable characters, 6 bits each, OR 0x40.
sdi12_crc_encode_ascii(crc) ==
    << 64 + (crc \div 4096), 64 + ((crc \div 64) % 64), 64 + (crc % 64) >>

EndsWithCRLF(buf) ==
    Len(buf) >= 2 /\ buf[Len(buf) - 1] = 13 /\ buf[Len(buf)] = 10

\* sdi12_crc_append on a NUL-terminated text buf held in a buffer of buflen
\* bytes: [err, buf].  On overflow the buffer is left as it was.
sdi12_crc_append(buf, buflen) ==
    LET slen     == Len(buf)
        data_end == IF EndsWithCRLF(buf) THEN slen - 2 ELSE slen
        data     == SubSeq(buf, 1, data_end)
    IN  IF data_end + 3 + 2 + 1 > buflen
        THEN [err |-> SDI12_ERR_BUFFER_OVERFLOW, buf |-> buf]
        ELSE [err |-> SDI12_OK,
              buf |-> data \o sdi12_crc_encode_ascii(sdi12_crc16(data)) \o CRLF]

\* sdi12_crc_append_n: as sdi12_crc_append, the data being the first data_len
\* bytes of buf (they may hold NUL bytes).
sdi12_crc_append_n(buf, data_len, buflen) ==
    LET data == SubSeq(buf, 1, data_len)
    IN  IF data_len + 3 + 2 + 1 > buflen
        THEN [err |-> SDI12_ERR_BUFFER_OVERFLOW, buf |-> buf]
        ELSE [err |-> SDI12_OK,
              buf |-> data \o sdi12_crc_encode_ascii(sdi12_crc16(data)) \o CRLF]

\* sdi12_crc_verify on the len = Len(buf) bytes of buf.
sdi12_crc_verify(buf) ==
    LET len  == Len(buf)
        end1 == IF len >= 1 /\ buf[len] = 10 THEN len - 1 ELSE len
        end  == IF end1 > 0 /\ buf[end1] = 13 THEN end1 - 1 ELSE end1
    IN  /\ len >= 6
        /\ end >= 3
        /\ SubSeq(buf, end - 2, end) =
               sdi12_crc_encode_ascii(sdi12_crc16(SubSeq(buf, 1, end - 3)))

(***************************************************************************)
(* Values and their text (format_value)                                    *)
(***************************************************************************)
\* A value: field value is twice the float, decimals the digits to print.
Val(twice, decimals) == [value |-> twice, decimals |-> decimals]

\* format_value: the text snprintf produces (its return value is Len of it).
format_value(val) ==
    LET sign   == IF val.value >= 0 THEN 43 ELSE 45
        absval == IF val.value >= 0 THEN val.value ELSE -val.value
        whole  == DecDigits(absval \div 2)
    IN  IF val.decimals = 0
        THEN <<sign>> \o whole
        ELSE <<sign>> \o whole \o <<46>> \o
             <<IF absval % 2 = 1 THEN 53 ELSE 48>> \o Zeros(val.decimals - 1)

(***************************************************************************)
(* Host hooks (the I/O capability of the sensor)                           *)
(***************************************************************************)
\* read_param hook of the host for parameter index idx at sampling instant
\* `sample`: every instant yields another value for every index.
read_param(idx, sample) ==
    Val(IF idx % 2 = 0 THEN 80 * sample + 3 * idx + 4 ELSE -(20 * sample + idx),
        idx % 3)

\* The identification the context is initialised with.
Ident == [vendor |-> Str(<<"T", "E", "S", "T", "C", "O">>),
          model  |-> Str(<<"M", "O", "D", "0", "0", "1">>),
          firmware_version |-> Str(<<"1", "0", "0">>),
          serial |-> Str(<<"S", "N", "1", "2", "3">>)]

\* printf("%-w.ws"): left-justified in exactly w characters.
PadTrunc(s, w) == [i \in 1..w |-> IF i <= Len(s) THEN s[i] ELSE 32]

(***************************************************************************)
(* Result of one engine call: the context after it, the value returned,    *)
(* the responses handed to the send_response hook and the other hook calls *)
(* made, in order.                                                         *)
(***************************************************************************)
Result(c, ret, sent, calls) ==
    [ctx |-> c, ret |-> ret, sent |-> sent, calls |-> calls]

\* Fault injection: a send_response that hands the buffer to the hook twice.
send_response_twice(buf) == <<buf, buf>>

\* send_response(ctx) with text in resp_buf (resp_len = 0: strlen is used).
send_response(buf) == <<buf>>

(***************************************************************************)
(* Internal helpers of sdi12_sensor.c                                      *)
(***************************************************************************)
\* collect_group_indices: the 0-based indices of the active parameters of
\* the group, in registration order, at most max of them.
collect_group_indices(c, group, max) ==
    LET all == SelectSeq([i \in 1..Len(c.params) |-> i - 1],
                         LAMBDA i : c.params[i + 1].active
                                    /\ c.params[i + 1].group = group)
    IN  SubSeq(all, 1, Min(Len(all), max))

\* count_group: the number of active parameters of the group.
count_group(c, group) ==
    Cardinality({i \in 1..Len(c.params) :
                    c.params[i].active /\ c.params[i].group = group})

\* The prefix of buf before its first NUL: what strlen-based code sees.
CStr(buf) ==
    LET nuls == {i \in 1..Len(buf) : buf[i] = 0}
    IN  IF nuls = {} THEN buf
        ELSE SubSeq(buf, 1, (CHOOSE i \in nuls : \A j \in nuls : i <= j) - 1)

\* The vlen bytes memcpy takes from vbuf[SDI12_VALUE_MAX_CHARS + 1]: snprintf
\* keeps the first 9 characters of a longer text and a NUL.  The bytes read
\* past vbuf are indeterminate; they lie behind that NUL, so no strlen-based
\* reader of resp_buf sees them, and they are written 0 here.
VbufBytes(text) ==
    IF Len(text) <= SDI12_VALUE_MAX_CHARS THEN text
    ELSE SubSeq(text, 1, SDI12_VALUE_MAX_CHARS)
         \o [j \in 1..(Len(text) - SDI12_VALUE_MAX_CHARS) |-> 0]

RECURSIVE format_data_loop(_, _, _, _, _, _, _)
\* The while loop of format_data_page from index i (0-based) on; body is the
\* text after the address (pos = 1 + Len(body)).  Yields [body, any_on_page].
format_data_loop(cache, i, current_page, body, any_on_page, page, max_value_chars) ==
    IF i >= Len(cache) THEN [body |-> body, any |-> any_on_page]
    ELSE
      LET text      == format_value(cache[i + 1])
          vlen      == Len(text)
          vbuf      == VbufBytes(text)
          newpage   == Len(body) + vlen > max_value_chars /\ Len(body) > 0
          cur       == IF newpage THEN current_page + 1 ELSE current_page
          body1     == IF newpage THEN <<>> ELSE body
      IN  IF vlen <= 0
          THEN format_data_loop(cache, i + 1, current_page, body, any_on_page,
                                page, max_value_chars)
          ELSE IF cur = page
          THEN IF 1 + Len(body1) + vlen >= SDI12_MAX_RESPONSE_LEN - 6
               THEN [body |-> body1, any |-> any_on_page]
               ELSE format_data_loop(cache, i + 1, cur, body1 \o vbuf, TRUE,
                                     page, max_value_chars)
          ELSE IF cur > page
          THEN [body |-> body1, any |-> any_on_page]
          ELSE format_data_loop(cache, i + 1, cur, body1, any_on_page,
                                page, max_value_chars)

\* format_data_page: the response text left in resp_buf, as send_response
\* and sdi12_crc_append read it (both by strlen).
format_data_page(c, page, max_value_chars) ==
    LET r    == format_data_loop(c.data_cache, 0, 0, <<>>, FALSE, page,
                                 max_value_chars)
        body == IF ~r.any /\ page > 0 THEN <<>> ELSE r.body
        buf  == <<c.address>> \o body
    IN  IF c.crc_requested
        THEN sdi12_crc_append(CStr(buf), SDI12_MAX_RESPONSE_LEN).buf
        ELSE IF Len(buf) + 2 < SDI12_MAX_RESPONSE_LEN
             THEN CStr(buf \o CRLF) ELSE CStr(buf)

\* read_group_sync: the cache filled from read_param, one call per parameter
\* of the group, and data_available set.  Yields [ctx, calls].
read_group_sync(c, group, sample) ==
    LET indices == collect_group_indices(c, group, SDI12_MAX_PARAMS)
        n       == Min(Len(indices), SDI12_MAX_PARAMS)
        values  == [k \in 1..n |-> read_param(indices[k], sample)]
    IN  [ctx   |-> [c EXCEPT !.data_cache = values, !.data_available = TRUE],
         calls |-> [k \in 1..n |-> <<"read_param", indices[k], values[k]>>]]

(***************************************************************************)
(* Command handlers.  h is what the host's hooks answer during the call:   *)
(* h.ttt (start_measurement), h.sample (the instant read_param samples),   *)
(* h.bin (the bytes format_binary_page writes from buf[1] on; it returns   *)
(* their number).                                                          *)
(***************************************************************************)
\* handle_acknowledge: a! / ?!
handle_acknowledge(c) ==
    Result(c, SDI12_OK, send_response(<<c.address>> \o CRLF), <<>>)

\* handle_identify: aI!
handle_identify(c) ==
    Result(c, SDI12_OK,
           send_response(Truncate(<<c.address>> \o <<49, 52>>
                                  \o PadTrunc(Ident.vendor, 8)
                                  \o PadTrunc(Ident.model, 6)
                                  \o PadTrunc(Ident.firmware_version, 3)
                                  \o Ident.serial \o CRLF,
                                  SDI12_MAX_RESPONSE_LEN)),
           <<>>)

\* Fault injection: every measurement type treated as Standard.
IsStdOrVerif_always(type) == TRUE

IsStdOrVerif(type) ==
    type = SDI12_MEAS_STANDARD \/ type = SDI12_MEAS_VERIFICATION

\* The count field of a measurement header for n parameters.
CountField(type, n) ==
    IF IsStdOrVerif(type) THEN DecDigits(IF n > 9 THEN 9 ELSE n)
    ELSE IF type = SDI12_MEAS_CONCURRENT THEN ZeroPad(IF n > 99 THEN 99 ELSE n, 2)
    ELSE ZeroPad(n, 3)

\* handle_measurement: aM!, aMC!, aMn!, aV!, aC!, aCC!, aCn!, aHA!, aHB!
handle_measurement(c, group, with_crc, type, h) ==
    LET c1 == [c EXCEPT !.crc_requested = with_crc,
                        !.pending_meas_type = type,
                        !.pending_meas_group = group]
        n  == count_group(c1, group)
    IN  IF n = 0
        THEN Result(c1, SDI12_OK,
                    send_response(<<c1.address>>
                                  \o (IF IsStdOrVerif(type) THEN Zeros(4) ELSE Zeros(5))
                                  \o CRLF),
                    <<>>)
        ELSE IF c1.cb.start_measurement
        THEN LET ttt  == IF h.ttt > 999 THEN 999 ELSE h.ttt
                 st   == IF ttt > 0
                         THEN (IF IsStdOrVerif(type) THEN SDI12_STATE_MEASURING
                               ELSE SDI12_STATE_MEASURING_C)
                         ELSE SDI12_STATE_DATA_READY
                 c2   == [c1 EXCEPT !.state = st]
                 rd   == read_group_sync(c2, group, h.sample)
                 call == <<"start_measurement", group, type, h.ttt>>
                 resp == <<c1.address>> \o ZeroPad(ttt, 3) \o CountField(type, n) \o CRLF
             IN  IF ttt = 0
                 THEN Result(rd.ctx, SDI12_OK, send_response(resp),
                             <<call>> \o rd.calls)
                 ELSE Result([c2 EXCEPT !.data_available = FALSE], SDI12_OK,
                             send_response(resp), <<call>>)
        ELSE LET rd   == read_group_sync(c1, group, h.sample)
                 resp == <<c1.address>> \o Zeros(3) \o CountField(type, n) \o CRLF
             IN  Result([rd.ctx EXCEPT !.state = SDI12_STATE_DATA_READY], SDI12_OK,
                        send_response(resp), rd.calls)

\* The empty binary packet: addr, size 0, type 0, CRC-16 little endian.
EmptyBinaryPacket(c) ==
    LET pkt == <<c.address, 0, 0, 0>>
        crc == sdi12_crc16(pkt)
    IN  pkt \o <<crc % 256, crc \div 256>>

\* handle_send_binary_data: aDBn!
handle_send_binary_data(c, page, h) ==
    IF ~c.data_available \/ ~c.cb.format_binary_page
    THEN Result(c, SDI12_OK, send_response(EmptyBinaryPacket(c)), <<>>)
    ELSE LET cb_bytes     == Len(h.bin)
             call         == <<"format_binary_page", page, c.data_cache>>
             payload_size == cb_bytes - 1
             pkt          == <<c.address, payload_size % 256, payload_size \div 256>>
                             \o h.bin
             crc          == sdi12_crc16(pkt)
         IN  IF cb_bytes = 0
             THEN Result(c, SDI12_OK, send_response(EmptyBinaryPacket(c)), <<call>>)
             ELSE Result(c, SDI12_OK,
                         send_response(pkt \o <<crc % 256, crc \div 256>>),
                         <<call>>)

\* Fault injection: the concurrent page budget for every measurement type.
PageBudget_always_C(type) == SDI12_C_VALUES_MAX_CHARS

\* The page budget handle_send_data chooses for the pending measurement type.
PageBudget(type) ==
    IF type \in {SDI12_MEAS_CONCURRENT, SDI12_MEAS_CONTINUOUS,
                 SDI12_MEAS_HIGHVOL_ASCII}
    THEN SDI12_C_VALUES_MAX_CHARS
    ELSE SDI12_M_VALUES_MAX_CHARS

\* The reply of a data request when no data is available: the address only.
NoDataReply(c, with_crc) ==
    IF with_crc
    THEN sdi12_crc_append(<<c.address>>, SDI12_MAX_RESPONSE_LEN).buf
    ELSE <<c.address>> \o CRLF

\* handle_send_data: aD0!..aD9!
handle_send_data(c, page, h) ==
    IF ~c.data_available
    THEN Result(c, SDI12_OK, send_response(NoDataReply(c, c.crc_requested)), <<>>)
    ELSE IF c.pending_meas_type = SDI12_MEAS_HIGHVOL_BINARY /\ c.cb.format_binary_page
    THEN LET buf  == <<c.address>> \o h.bin
             pos  == 1 + Len(h.bin)
             call == <<"format_binary_page", page, c.data_cache>>
             out  == IF c.crc_requested
                     THEN sdi12_crc_append_n(buf, pos, SDI12_MAX_RESPONSE_LEN).buf
                     ELSE IF pos + 2 < SDI12_MAX_RESPONSE_LEN THEN buf \o CRLF
                     ELSE buf
         IN  Result(c, SDI12_OK, send_response(out), <<call>>)
    ELSE Result(c, SDI12_OK,
                send_response(format_data_page(c, page,
                                               PageBudget(c.pending_meas_type))),
                <<>>)

\* handle_continuous: aR0!..aR9!, aRC0!..aRC9!
handle_continuous(c, index, with_crc, h) ==
    LET c1 == [c EXCEPT !.crc_requested = with_crc,
                        !.pending_meas_type = SDI12_MEAS_CONTINUOUS]
        n  == count_group(c1, index)
        rd == read_group_sync(c1, index, h.sample)
    IN  IF n = 0
        THEN Result(c1, SDI12_OK, send_response(NoDataReply(c1, with_crc)), <<>>)
        ELSE Result(rd.ctx, SDI12_OK,
                    send_response(format_data_page(rd.ctx, 0, SDI12_C_VALUES_MAX_CHARS)),
                    rd.calls)

\* Fault injection: a change of address that is acknowledged and saved but
\* not taken over by the context.
handle_change_address_not_applied(c, new_addr) ==
    IF ~sdi12_valid_address(new_addr)
    THEN Result(c, SDI12_ERR_INVALID_ADDRESS, <<>>, <<>>)
    ELSE Result(c, SDI12_OK, send_response(<<new_addr>> \o CRLF),
                IF c.cb.save_address THEN << <<"save_address", new_addr>> >> ELSE <<>>)

\* handle_change_address: aAb!
handle_change_address(c, new_addr) ==
    IF ~sdi12_valid_address(new_addr)
    THEN Result(c, SDI12_ERR_INVALID_ADDRESS, <<>>, <<>>)
    ELSE Result([c EXCEPT !.address = new_addr], SDI12_OK,
                send_response(<<new_addr>> \o CRLF),
                IF c.cb.save_address THEN << <<"save_address", new_addr>> >> ELSE <<>>)

\* handle_highvol_stub: aH!
handle_highvol_stub(c) ==
    Result(c, SDI12_OK, send_response(<<c.address>> \o Zeros(6) \o CRLF), <<>>)

\* memchr(cmd + from, ch, count): the least C index in from..from+count-1
\* holding ch, or -1.
IndexOf(cmd, ch, from, count) ==
    LET hits == {i \in from..(from + count - 1) : At(cmd, i) = ch}
    IN  IF hits = {} THEN -1 ELSE CHOOSE i \in hits : \A j \in hits : i <= j

RECURSIVE ParseDigits(_, _, _)
\* The decimal number read from C index i on, up to the first non-digit.
ParseDigits(cmd, i, acc) ==
    IF IsDigit(At(cmd, i)) THEN ParseDigits(cmd, i + 1, acc * 10 + (At(cmd, i) - 48))
    ELSE acc

RECURSIVE ParsePage(_, _, _, _)
\* The page loops of sdi12_sensor_process: digits from C index i, below cmdlen.
ParsePage(cmd, i, cmdlen, acc) ==
    IF i < cmdlen /\ IsDigit(At(cmd, i))
    THEN ParsePage(cmd, i + 1, cmdlen, (acc * 10 + (At(cmd, i) - 48)) % 65536)
    ELSE acc

\* The reply to a parameter-metadata request (the command holds '_').
MetaParamReply(c, cmd, len, underscore) ==
    LET subcmd    == At(cmd, 2)
        param_num == ParseDigits(cmd, underscore + 1, 0)
        after_mc  == IF At(cmd, 3) = 67 THEN 4 ELSE 3
        group     == IF subcmd = 77 \/ subcmd = 67
                     THEN (IF IsDigit19(At(cmd, after_mc)) /\ after_mc < underscore
                           THEN At(cmd, after_mc) - 48 ELSE 0)
                     ELSE IF subcmd = 82
                     THEN (IF IsDigit(At(cmd, 3)) THEN At(cmd, 3) - 48 ELSE 0)
                     ELSE 0
        indices   == collect_group_indices(c, group, SDI12_MAX_PARAMS)
        n         == Len(indices)
        crc       == IndexOf(cmd, 67, 2, underscore - 2) # -1
    IN  IF param_num >= 1 /\ param_num <= n
        THEN LET idx  == indices[param_num]
                 text == Truncate(<<c.address, 44>> \o c.params[idx + 1].shef \o <<44>>
                                  \o c.params[idx + 1].units \o <<59>>,
                                  SDI12_MAX_RESPONSE_LEN)
             IN  [ctx |-> [c EXCEPT !.crc_requested = crc],
                  buf |-> IF crc
                          THEN sdi12_crc_append(text, SDI12_MAX_RESPONSE_LEN).buf
                          ELSE text \o CRLF]
        ELSE [ctx |-> c, buf |-> NoDataReply(c, crc)]

\* The group digit of aIM / aIC capability requests.
MetaGroup(cmd, len) ==
    LET crc       == len > 3 /\ At(cmd, 3) = 67
        digit_pos == IF crc THEN 4 ELSE 3
    IN  IF digit_pos < len /\ IsDigit19(At(cmd, digit_pos))
        THEN At(cmd, digit_pos) - 48 ELSE 0

\* handle_identify_measurement: aIM!, aIMC!, aIC!, aIV!, aIHA!, aIHB!, aIRn!
\* and their _nnn forms; len is the command length without the '!'.
handle_identify_measurement(c, cmd, len) ==
    LET subcmd     == At(cmd, 2)
        underscore == IndexOf(cmd, 95, 2, len - 2)
        head(n9)   == <<c.address>> \o Zeros(3) \o n9 \o CRLF
    IN  IF len < 3 THEN Result(c, SDI12_ERR_INVALID_COMMAND, <<>>, <<>>)
        ELSE IF underscore # -1
        THEN LET r == MetaParamReply(c, cmd, len, underscore)
             IN  Result(r.ctx, SDI12_OK, send_response(r.buf), <<>>)
        ELSE IF subcmd = 77
        THEN Result(c, SDI12_OK,
                    send_response(head(CountField(SDI12_MEAS_STANDARD,
                                                  count_group(c, MetaGroup(cmd, len))))),
                    <<>>)
        ELSE IF subcmd = 67
        THEN Result(c, SDI12_OK,
                    send_response(head(CountField(SDI12_MEAS_CONCURRENT,
                                                  count_group(c, MetaGroup(cmd, len))))),
                    <<>>)
        ELSE IF subcmd = 86
        THEN Result(c, SDI12_OK,
                    send_response(head(CountField(SDI12_MEAS_STANDARD,
                                                  count_group(c, 0)))),
                    <<>>)
        ELSE IF subcmd = 72
        THEN Result(c, SDI12_OK,
                    send_response(IF len > 3 /\ (At(cmd, 3) = 65 \/ At(cmd, 3) = 66)
                                  THEN head(ZeroPad(count_group(c, 0), 3))
                                  ELSE <<c.address>> \o Zeros(6) \o CRLF),
                    <<>>)
        ELSE IF subcmd = 82
        THEN Result(c, SDI12_OK,
                    send_response(head(CountField(SDI12_MEAS_CONCURRENT,
                        count_group(c, IF len > 3 /\ IsDigit(At(cmd, 3))
                                       THEN At(cmd, 3) - 48 ELSE 0)))),
                    <<>>)
        ELSE Result(c, SDI12_OK, send_response(<<c.address>> \o Zeros(4) \o CRLF), <<>>)

\* An extended-command handler of the host, by name: what it leaves in the
\* response buffer (the address is pre-placed) and what it returns.
\*   "echo"  appends "ECHO:" and the command text, returns OK
\*   "crlf"  appends "OK" and its own CR LF, returns OK
\*   "fail"  writes nothing and returns an error
XcmdHandler(handler, xcmd_str, resp) ==
    IF handler = "echo"
    THEN [err |-> SDI12_OK,
          buf |-> Truncate(resp \o Str(<<"E", "C", "H", "O", ":">>) \o xcmd_str,
                           SDI12_MAX_RESPONSE_LEN)]
    ELSE IF handler = "crlf"
    THEN [err |-> SDI12_OK, buf |-> resp \o Str(<<"O", "K">>) \o CRLF]
    ELSE [err |-> SDI12_ERR_ABORTED, buf |-> resp]

\* strlen(prefix) <= xcmd_len and the first bytes of the payload equal prefix.
PrefixMatches(prefix, cmd, len) ==
    /\ len - 2 >= Len(prefix)
    /\ \A k \in 1..Len(prefix) : At(cmd, 1 + k) = prefix[k]

\* handle_extended: aX...!; len is the command length without the '!'.
handle_extended(c, cmd, len) ==
    LET hits == {i \in 1..Len(c.xcmds) :
                    c.xcmds[i].active /\ PrefixMatches(c.xcmds[i].prefix, cmd, len)}
    IN  IF hits = {}
        THEN Result(c, SDI12_OK, send_response(<<c.address>> \o CRLF), <<>>)
        ELSE LET i    == CHOOSE k \in hits : \A j \in hits : k <= j
                 xstr == SubSeq(cmd, 3, Len(cmd))
                 r    == XcmdHandler(c.xcmds[i].handler, xstr, <<c.address>>)
                 slen == Len(r.buf)
                 out  == IF ~EndsWithCRLF(r.buf) /\ slen + 2 < SDI12_MAX_RESPONSE_LEN
                         THEN r.buf \o CRLF ELSE r.buf
                 call == <<"xcmd", i - 1, xstr>>
             IN  IF r.err = SDI12_OK
                 THEN Result(c, SDI12_OK, send_response(out), <<call>>)
                 ELSE Result(c, r.err, <<>>, <<call>>)

(***************************************************************************)
(* Public API                                                              *)
(***************************************************************************)
\* Fault injection: an init that takes whatever load_address returns.
sdi12_sensor_init_unchecked_load(address, cb, loaded) ==
    [address            |-> IF cb.load_address THEN loaded ELSE address,
     cb                 |-> cb,
     params             |-> <<>>,
     xcmds              |-> <<>>,
     state              |-> SDI12_STATE_READY,
     pending_meas_type  |-> SDI12_MEAS_STANDARD,
     pending_meas_group |-> 0,
     crc_requested      |-> FALSE,
     data_cache         |-> <<>>,
     data_available     |-> FALSE]

\* The context sdi12_sensor_init leaves: memset to zero, then address, cb,
\* state READY; the address load_address returns replaces it when valid.
\* cb tells which optional hooks are installed; loaded is what load_address
\* returns (0 when the hook is absent).
sdi12_sensor_init(address, cb, loaded) ==
    [address            |-> IF cb.load_address /\ sdi12_valid_address(loaded)
                            THEN loaded ELSE address,
     cb                 |-> cb,
     params             |-> <<>>,
     xcmds              |-> <<>>,
     state              |-> SDI12_STATE_READY,
     pending_meas_type  |-> SDI12_MEAS_STANDARD,
     pending_meas_group |-> 0,
     crc_requested      |-> FALSE,
     data_cache         |-> <<>>,
     data_available     |-> FALSE]

\* sdi12_sensor_register_param
sdi12_sensor_register_param(c, group, shef, units, decimals) ==
    IF Len(c.params) >= SDI12_MAX_PARAMS
    THEN Result(c, SDI12_ERR_PARAM_LIMIT, <<>>, <<>>)
    ELSE IF group >= SDI12_MAX_MEAS_GROUPS
    THEN Result(c, SDI12_ERR_INVALID_COMMAND, <<>>, <<>>)
    ELSE Result([c EXCEPT !.params =
                    Append(@, [shef |-> Truncate(shef, 4), units |-> Truncate(units, 21),
                               group |-> group, decimals |-> decimals,
                               active |-> TRUE])],
                SDI12_OK, <<>>, <<>>)

\* sdi12_sensor_register_xcmd
sdi12_sensor_register_xcmd(c, prefix, handler) ==
    IF Len(c.xcmds) >= SDI12_MAX_XCMDS
    THEN Result(c, SDI12_ERR_PARAM_LIMIT, <<>>, <<>>)
    ELSE Result([c EXCEPT !.xcmds =
                    Append(@, [prefix |-> Truncate(prefix, 16), handler |-> handler,
                               active |-> TRUE])],
                SDI12_OK, <<>>, <<>>)

\* Fault injection: an address test that accepts every valid address.
IsAddressed_any_valid(c, cmd) == Len(cmd) > 0 /\ sdi12_valid_address(cmd[1])

\* cmd carries the sensor's own address.
IsAddressed(c, cmd) == Len(cmd) > 0 /\ cmd[1] = c.address

\* The command length once a trailing '!' is stripped.
CmdLen(cmd) ==
    IF Len(cmd) > 0 /\ cmd[Len(cmd)] = 33 THEN Len(cmd) - 1 ELSE Len(cmd)

\* Fault injection: an abort that clears the data but leaves the state.
AbortConcurrent_keeps_state(c) ==
    [c EXCEPT !.data_available = FALSE, !.data_cache = <<>>]

\* The abort of a concurrent measurement by an addressed command.
AbortConcurrent(c) ==
    [c EXCEPT !.state = SDI12_STATE_READY,
              !.data_available = FALSE,
              !.data_cache = <<>>]

\* The group digit ('1'..'9') of aM / aC commands.
MeasGroup(cmd, cmdlen) ==
    LET crc       == cmdlen > 2 /\ At(cmd, 2) = 67
        digit_pos == IF crc THEN 3 ELSE 2
    IN  IF digit_pos < cmdlen /\ IsDigit19(At(cmd, digit_pos))
        THEN At(cmd, digit_pos) - 48 ELSE 0

\* The switch of sdi12_sensor_process on the second character.
Dispatch(c, cmd, cmdlen, h) ==
    LET c1   == At(cmd, 1)
        crc2 == cmdlen > 2 /\ At(cmd, 2) = 67
        crc3 == cmdlen > 3 /\ At(cmd, 3) = 67
    IN  IF c1 = 73   \* 'I'
        THEN (IF cmdlen = 2 THEN handle_identify(c)
              ELSE handle_identify_measurement(c, cmd, cmdlen))
        ELSE IF c1 = 77   \* 'M'
        THEN handle_measurement(c, MeasGroup(cmd, cmdlen), crc2,
                                SDI12_MEAS_STANDARD, h)
        ELSE IF c1 = 67   \* 'C'
        THEN handle_measurement(c, MeasGroup(cmd, cmdlen), crc2,
                                SDI12_MEAS_CONCURRENT, h)
        ELSE IF c1 = 68   \* 'D'
        THEN (IF cmdlen >= 3
              THEN (IF At(cmd, 2) = 66
                    THEN handle_send_binary_data(c, ParsePage(cmd, 3, cmdlen, 0), h)
                    ELSE handle_send_data(c, Min(ParsePage(cmd, 2, cmdlen, 0), 255), h))
              ELSE Result(c, SDI12_ERR_INVALID_COMMAND, <<>>, <<>>))
        ELSE IF c1 = 82   \* 'R'
        THEN LET digit_pos == IF crc2 THEN 3 ELSE 2
                 index     == IF digit_pos < cmdlen /\ IsDigit(At(cmd, digit_pos))
                              THEN At(cmd, digit_pos) - 48 ELSE 0
             IN  handle_continuous(c, index, crc2, h)
        ELSE IF c1 = 86   \* 'V'
        THEN handle_measurement(c, 0, FALSE, SDI12_MEAS_VERIFICATION, h)
        ELSE IF c1 = 65   \* 'A'
        THEN (IF cmdlen >= 3 /\ isprint(At(cmd, 2))
              THEN handle_change_address(c, At(cmd, 2))
              ELSE Result(c, SDI12_ERR_INVALID_ADDRESS, <<>>, <<>>))
        ELSE IF c1 = 72   \* 'H'
        THEN (IF cmdlen >= 3 /\ At(cmd, 2) = 65
              THEN handle_measurement(c, 0, crc3, SDI12_MEAS_HIGHVOL_ASCII, h)
              ELSE IF cmdlen >= 3 /\ At(cmd, 2) = 66
              THEN handle_measurement(c, 0, crc3, SDI12_MEAS_HIGHVOL_BINARY, h)
              ELSE handle_highvol_stub(c))
        ELSE IF c1 = 88   \* 'X'
        THEN handle_extended(c, cmd, cmdlen)
        ELSE Result(c, SDI12_ERR_INVALID_COMMAND, <<>>, <<>>)

\* Fault injection: the abort of the concurrent measurement done ahead of
\* the address check.
sdi12_sensor_process_abort_first(c, cmd, h) ==
    LET cmdlen       == CmdLen(cmd)
        is_query     == cmdlen = 1 /\ cmd[1] = 63
        is_addressed == IsAddressed(c, cmd)
        c1           == IF c.state = SDI12_STATE_MEASURING_C
                        THEN AbortConcurrent(c) ELSE c
    IN  IF Len(cmd) = 0 \/ cmdlen = 0
        THEN Result(c, SDI12_ERR_INVALID_COMMAND, <<>>, <<>>)
        ELSE IF ~is_addressed /\ ~is_query
        THEN Result(c1, SDI12_ERR_NOT_ADDRESSED, <<>>, <<>>)
        ELSE IF cmdlen = 1 THEN handle_acknowledge(c1)
        ELSE Dispatch(c1, cmd, cmdlen, h)

\* sdi12_sensor_process(ctx, cmd, len) with len = Len(cmd).
sdi12_sensor_process(c, cmd, h) ==
    LET cmdlen       == CmdLen(cmd)
        is_query     == cmdlen = 1 /\ cmd[1] = 63
        is_addressed == IsAddressed(c, cmd)
        c1           == IF is_addressed /\ c.state = SDI12_STATE_MEASURING_C
                        THEN AbortConcurrent(c) ELSE c
    IN  IF Len(cmd) = 0 \/ cmdlen = 0
        THEN Result(c, SDI12_ERR_INVALID_COMMAND, <<>>, <<>>)
        ELSE IF ~is_addressed /\ ~is_query
        THEN Result(c, SDI12_ERR_NOT_ADDRESSED, <<>>, <<>>)
        ELSE IF cmdlen = 1 THEN handle_acknowledge(c1)
        ELSE Dispatch(c1, cmd, cmdlen, h)

\* Fault injection: a measurement_done that sends the service request in
\* every state.
sdi12_sensor_measurement_done_srq_always(c, values) ==
    Result([c EXCEPT !.data_cache = values, !.data_available = TRUE,
                     !.state = SDI12_STATE_DATA_READY],
           SDI12_OK, send_response(<<c.address>> \o CRLF), <<>>)

\* sdi12_sensor_measurement_done(ctx, values, count) with count = Len(values).
sdi12_sensor_measurement_done(c, values) ==
    LET n  == Min(Len(values), SDI12_MAX_PARAMS)
        c1 == [c EXCEPT !.data_cache = SubSeq(values, 1, n),
                        !.data_available = TRUE]
    IN  IF c.state = SDI12_STATE_MEASURING
        THEN IF c.cb.service_request
             THEN Result([c1 EXCEPT !.state = SDI12_STATE_DATA_READY], SDI12_OK,
                         <<>>, << <<"service_request">> >>)
             ELSE Result([c1 EXCEPT !.state = SDI12_STATE_DATA_READY], SDI12_OK,
                         send_response(<<c.address>> \o CRLF), <<>>)
        ELSE IF c.state = SDI12_STATE_MEASURING_C
        THEN Result([c1 EXCEPT !.state = SDI12_STATE_DATA_READY], SDI12_OK, <<>>, <<>>)
        ELSE Result(c1, SDI12_OK, <<>>, <<>>)

\* Fault injection: a break that aborts the measurement but leaves the state.
sdi12_sensor_break_keeps_state(c) ==
    IF c.state = SDI12_STATE_MEASURING \/ c.state = SDI12_STATE_MEASURING_C
    THEN [c EXCEPT !.data_available = FALSE, !.data_cache = <<>>]
    ELSE c

\* Fault injection: a break that clears the data in every state.
sdi12_sensor_break_clears_always(c) ==
    [c EXCEPT !.data_available = FALSE, !.data_cache = <<>>,
              !.state = SDI12_STATE_READY]

\* sdi12_sensor_break
sdi12_sensor_break(c) ==
    LET c1 == IF c.state = SDI12_STATE_MEASURING \/ c.state = SDI12_STATE_MEASURING_C
              THEN [c EXCEPT !.data_available = FALSE, !.data_cache = <<>>]
              ELSE c
    IN  [c1 EXCEPT !.state = SDI12_STATE_READY]

(***************************************************************************)
(* The sensor as a state machine                                           *)
(***************************************************************************)
VARIABLES
    ctx,    \* the sdi12_sensor_ctx_t
    last    \* the last engine call: what was called, with what, and what it
            \* returned, sent and asked of the hooks

vars == <<ctx, last>>

\* Bounds of the model.
MaxSample == 2      \* sampling instants 1..MaxSample of read_param
MaxDoneCount == 2   \* measurement_done is called with 0..MaxDoneCount values

\* The optional hooks a host may install.
NoHooks ==
    [save_address |-> FALSE, load_address |-> FALSE, start_measurement |-> FALSE,
     service_request |-> FALSE, format_binary_page |-> FALSE]
HookSets ==
    { NoHooks,
      [NoHooks EXCEPT !.start_measurement = TRUE],
      [NoHooks EXCEPT !.start_measurement = TRUE, !.service_request = TRUE,
                      !.format_binary_page = TRUE, !.save_address = TRUE] }

\* The registrations the host makes after init: two parameters in group 0,
\* one in group 1, none elsewhere; three extended commands.
SetupParams(c) ==
    LET a == sdi12_sensor_register_param(c, 0, Str(<<"T", "A">>), Str(<<"C">>), 2).ctx
        b == sdi12_sensor_register_param(a, 0, Str(<<"R", "H">>), Str(<<"%">>), 1).ctx
    IN  sdi12_sensor_register_param(b, 1, Str(<<"P", "A">>), Str(<<"K", "p", "a">>), 1).ctx

SetupXcmds(c) ==
    LET a == sdi12_sensor_register_xcmd(c, Str(<<"E", "C">>), "echo").ctx
        b == sdi12_sensor_register_xcmd(a, Str(<<"E">>), "crlf").ctx
    IN  sdi12_sensor_register_xcmd(b, Str(<<"F">>), "fail").ctx

Addr0 == Asc("0")

NoCall == [op |-> "init", cmd |-> <<>>, values |-> <<>>, ret |-> SDI12_OK,
           sent |-> <<>>, calls |-> <<>>, before |-> SDI12_STATE_READY]

Init ==
    /\ \E cb \in HookSets :
           ctx = SetupXcmds(SetupParams(sdi12_sensor_init(Addr0, cb, 0)))
    /\ last = NoCall

\* What the hooks may answer during a process call of cmd (one default
\* answer where the call cannot reach the hook).
TttAnswers == {0, 7}
BinAnswers == {<<>>, <<9, 1, 0>>}
DefaultAnswer == [ttt |-> 0, sample |-> 1, bin |-> <<>>]
HookAnswers(c, cmd) ==
    IF ~IsAddressed(c, cmd) \/ CmdLen(cmd) < 2 THEN {DefaultAnswer}
    ELSE IF At(cmd, 1) \in {77, 67, 86, 72}
    THEN [ttt    : IF c.cb.start_measurement THEN TttAnswers ELSE {0},
          sample : 1..MaxSample, bin : {<<>>}]
    ELSE IF At(cmd, 1) = 82
    THEN [ttt : {0}, sample : 1..MaxSample, bin : {<<>>}]
    ELSE IF At(cmd, 1) = 68 /\ c.cb.format_binary_page
    THEN [ttt : {0}, sample : {1}, bin : BinAnswers]
    ELSE {DefaultAnswer}

\* The values a host may hand to measurement_done.
DoneValues ==
    { [k \in 1..n |-> Val(1000 + k, k % 2)] : n \in 0..MaxDoneCount }

\* One sdi12_sensor_process call on a command of Cmds.
Process(Cmds) ==
    \E cmd \in Cmds : \E h \in HookAnswers(ctx, cmd) :
        \E r \in {sdi12_sensor_process(ctx, cmd, h)} :
            /\ ctx' = r.ctx
            /\ last' = [op |-> "process", cmd |-> cmd, values |-> <<>>,
                        ret |-> r.ret, sent |-> r.sent, calls |-> r.calls,
                        before |-> ctx.state]

\* One sdi12_sensor_measurement_done call.
MeasurementDone ==
    \E values \in DoneValues :
        \E r \in {sdi12_sensor_measurement_done(ctx, values)} :
            /\ ctx' = r.ctx
            /\ last' = [op |-> "measurement_done", cmd |-> <<>>, values |-> values,
                        ret |-> r.ret, sent |-> r.sent, calls |-> r.calls,
                        before |-> ctx.state]

\* One sdi12_sensor_break call.
Break ==
    /\ ctx' = sdi12_sensor_break(ctx)
    /\ last' = [op |-> "break", cmd |-> <<>>, values |-> <<>>, ret |-> SDI12_OK,
                sent |-> <<>>, calls |-> <<>>, before |-> ctx.state]

\* The commands of the measurement life cycle, to the sensor at '0'.
LifeCycleCmds ==
    { Str(t) : t \in {
        <<"0", "!">>, <<"?", "!">>, <<"1", "M", "!">>,
        <<"0", "M", "!">>, <<"0", "M", "C", "!">>, <<"0", "M", "9", "!">>,
        <<"0", "V", "!">>, <<"0", "C", "!">>, <<"0", "C", "C", "1", "!">>,
        <<"0", "H", "A", "!">>, <<"0", "H", "B", "!">>,
        <<"0", "D", "0", "!">>, <<"0", "D", "1", "!">>, <<"0", "D", "B", "0", "!">>,
        <<"0", "R", "0", "!">>, <<"0", "R", "C", "9", "!">>,
        <<"0", "Q", "!">>, <<"0", "A", "$", "!">>,
        <<"0", "X", "F", "!">>, <<"0", "X", "E", "!">> } }

Next ==
    \/ Process(LifeCycleCmds)
    \/ MeasurementDone
    \/ Break

Spec == Init /\ [][Next]_vars

\* The sensor renamed between '0', '5' and 'z', with commands to each of the
\* three addresses and to '1', which it never has.
AddressCmds ==
    { Str(t) : t \in {
        <<"0", "A", "5", "!">>, <<"5", "A", "z", "!">>, <<"z", "A", "0", "!">>,
        <<"0", "A", "$", "!">>, <<"5", "A", "!">>, <<"?", "!">>,
        <<"0", "!">>, <<"5", "!">>, <<"1", "M", "!">>,
        <<"0", "M", "!">>, <<"5", "M", "!">>, <<"z", "C", "!">>, <<"0", "C", "!">>,
        <<"0", "D", "0", "!">>, <<"5", "D", "0", "!">>, <<"z", "D", "0", "!">>,
        <<"0", "X", "F", "!">>, <<"5", "X", "E", "!">>, <<"z", "Q", "!">> } }

NextAddr ==
    \/ Process(AddressCmds)
    \/ MeasurementDone
    \/ Break

SpecAddr == Init /\ [][NextAddr]_vars

\* The sensor whose host registers its parameters one by one, all in group
\* 0, before the first command arrives: every table size from 0 to
\* SDI12_MAX_PARAMS, and one registration more, is reached.
DataHookSets ==
    { NoHooks, [NoHooks EXCEPT !.start_measurement = TRUE] }

InitData ==
    /\ \E cb \in DataHookSets : ctx = SetupXcmds(sdi12_sensor_init(Addr0, cb, 0))
    /\ last = NoCall

\* One sdi12_sensor_register_param call (parameter k prints k % 3 decimals).
RegisterParam ==
    /\ last.op \in {"init", "register_param"}
    /\ last.ret = SDI12_OK
    /\ \E r \in {sdi12_sensor_register_param(ctx, 0, Str(<<"T", "A">>), Str(<<"C">>),
                                               Len(ctx.params) % 3)} :
           /\ ctx' = r.ctx
           /\ last' = [op |-> "register_param", cmd |-> <<>>, values |-> <<>>,
                       ret |-> r.ret, sent |-> r.sent, calls |-> r.calls,
                       before |-> ctx.state]

\* What the hooks answer in this setting: a start_measurement that reports
\* no wait or one beyond the field, and read_param at a quiet instant or at
\* one where the readings are large.
LargeSample == 5000
DataAnswers(c, cmd) ==
    IF ~IsAddressed(c, cmd) \/ CmdLen(cmd) < 2 THEN {DefaultAnswer}
    ELSE IF At(cmd, 1) \in {77, 67, 86, 72}
    THEN [ttt : {0}, sample : {1, LargeSample}, bin : {<<>>}]
         \cup (IF c.cb.start_measurement
               THEN {[DefaultAnswer EXCEPT !.ttt = 1000]} ELSE {})
    ELSE IF At(cmd, 1) = 82
    THEN [ttt : {0}, sample : {1, LargeSample}, bin : {<<>>}]
    ELSE {DefaultAnswer}

DataCmds ==
    { Str(t) : t \in {
        <<"0", "M", "!">>, <<"0", "M", "C", "!">>, <<"0", "M", "1", "!">>,
        <<"0", "C", "!">>, <<"0", "H", "A", "!">>, <<"0", "H", "B", "!">>,
        <<"0", "D", "0", "!">>, <<"0", "D", "B", "0", "!">>,
        <<"0", "R", "0", "!">> } }

\* One sdi12_sensor_process call on a command of DataCmds.
ProcessData ==
    \E cmd \in DataCmds : \E h \in DataAnswers(ctx, cmd) :
        \E r \in {sdi12_sensor_process(ctx, cmd, h)} :
            /\ ctx' = r.ctx
            /\ last' = [op |-> "process", cmd |-> cmd, values |-> <<>>,
                        ret |-> r.ret, sent |-> r.sent, calls |-> r.calls,
                        before |-> ctx.state]

NextData ==
    \/ RegisterParam
    \/ ProcessData
    \/ MeasurementDone

SpecData == InitData /\ [][NextData]_vars

\* The sensor of a host that keeps the address in non-volatile storage:
\* load_address answers a stored valid address, a byte that is no address, or
\* the 0 of an erased store.
LoadHookSets ==
    { NoHooks, [NoHooks EXCEPT !.load_address = TRUE, !.save_address = TRUE] }
LoadedAnswers == {Asc("z"), Asc("$"), 0}

InitLoad ==
    \E cb \in LoadHookSets :
      \E loaded \in (IF cb.load_address THEN LoadedAnswers ELSE {0}) :
        /\ ctx = SetupXcmds(SetupParams(sdi12_sensor_init(Addr0, cb, loaded)))
        /\ last = [NoCall EXCEPT !.calls = IF cb.load_address
                                           THEN << <<"load_address", loaded>> >>
                                           ELSE <<>>]

SpecLoad == InitLoad /\ [][NextAddr]_vars

\* The sensor whose host registers extended commands in any order, each at
\* most once: two handlers with overlapping prefixes, one that fails and one
\* with the empty prefix.
XcmdChoices ==
    { <<Str(<<"E", "C">>), "echo">>, <<Str(<<"E">>), "crlf">>,
      <<Str(<<"F">>), "fail">>, <<Str(<<>>), "crlf">> }

InitXcmd ==
    /\ ctx = SetupParams(sdi12_sensor_init(Addr0, NoHooks, 0))
    /\ last = NoCall

\* One sdi12_sensor_register_xcmd call.
RegisterXcmd ==
    \E x \in XcmdChoices :
        /\ \A i \in 1..Len(ctx.xcmds) : ctx.xcmds[i].prefix # x[1]
        /\ \E r \in {sdi12_sensor_register_xcmd(ctx, x[1], x[2])} :
               /\ ctx' = r.ctx
               /\ last' = [op |-> "register_xcmd", cmd |-> x[1], values |-> <<>>,
                           ret |-> r.ret, sent |-> r.sent, calls |-> r.calls,
                           before |-> ctx.state]

\* Extended commands to the sensor at '0': bodies that match two prefixes,
\* one, the failing one, none but the empty one, the bare aX!, and one whose
\* echo is longer than the response buffer.
XCmds ==
    { <<Addr0, 88>> \o body \o <<33>> :
        body \in { Str(<<"E", "C", "1">>), Str(<<"E">>), Str(<<"E", "Z">>),
                   Str(<<"F">>), Str(<<"Q">>), <<>>,
                   Str(<<"E", "C">>) \o [k \in 1..SDI12_MAX_RESPONSE_LEN |-> 65] } }

NextXcmd ==
    \/ RegisterXcmd
    \/ Process(XCmds)

SpecXcmd == InitXcmd /\ [][NextXcmd]_vars

(***************************************************************************)
(* Properties                                                              *)
(***************************************************************************)
ValidAddresses == {c \in 0..127 : sdi12_valid_address(c)}

\* The command of the last call was a measurement command (M, C, V, HA, HB
\* and their CRC and group variants) and it was answered.
IsMeasurementCmd(cmd) ==
    /\ Len(cmd) >= 2
    /\ \/ cmd[2] \in {77, 67, 86}
       \/ cmd[2] = 72 /\ CmdLen(cmd) >= 3 /\ cmd[3] \in {65, 66}
AfterMeasurementCmd ==
    last.op = "process" /\ last.ret = SDI12_OK /\ IsMeasurementCmd(last.cmd)

\* The group a measurement command names, read off the command text.
GroupOfCmd(cmd) ==
    IF cmd[2] \in {77, 67} THEN MeasGroup(cmd, CmdLen(cmd)) ELSE 0

\* The hook calls of one kind among the calls of the last engine call.
CallsOf(kind) == SelectSeq(last.calls, LAMBDA call : call[1] = kind)

\* A response carries no value: no sign character in it.
HasNoValues(resp) == \A i \in 1..Len(resp) : resp[i] \notin {43, 45}

\* Command bodies put behind a foreign first byte.
SweepBodies ==
    { <<>>, <<33>>, Str(<<"M", "!">>), Str(<<"D", "0", "!">>), Str(<<"A", "5", "!">>) }

\* C1: in every state, a command whose first byte is not the sensor's
\* address and which is not the lone wildcard '?' returns NotAddressed and
\* sends nothing; checked in every reachable context for each of the 61
\* other valid addresses (and for '?' followed by a body), and on the calls
\* the run makes.
C1_UnaddressedSilence ==
    /\ \A a \in (ValidAddresses \cup {63}) \ {ctx.address} :
         \A body \in SweepBodies :
           (a = 63 /\ CmdLen(<<a>> \o body) = 1)
           \/ LET r == sdi12_sensor_process(ctx, <<a>> \o body, DefaultAnswer)
              IN  /\ r.ret = SDI12_ERR_NOT_ADDRESSED
                  /\ r.sent = <<>>
    /\ (last.op = "process" /\ last.ret = SDI12_ERR_NOT_ADDRESSED)
           => last.sent = <<>> /\ last.cmd[1] # ctx.address
C1_Witness ==
    /\ last.op = "process" /\ last.ret = SDI12_ERR_NOT_ADDRESSED
    /\ last.cmd = Str(<<"0", "M", "!">>)
    /\ ctx.address = Asc("5") /\ ctx.state = SDI12_STATE_MEASURING

\* Commands of every kind to the sensor's own address a.
BroadCmds(a) ==
    { <<a>> \o Str(t) : t \in {
        <<"I", "!">>, <<"I", "M", "!">>, <<"I", "C", "_", "0", "0", "1", "!">>,
        <<"I", "!", "!">>, <<"H", "!">>, <<"X", "!">>, <<"X", "E", "C", "H", "O", "!">>,
        <<"X", "F", "1", "!">>, <<"A", "!">>, <<"A", "z", "!">>, <<"A", " ", "!">>,
        <<"D", "!">>, <<"D", "9", "!">>, <<"D", "B", "!">>, <<"Z", "!">>, <<"!">> } }

C3_MeasurementStart ==
    (AfterMeasurementCmd /\ last.before = SDI12_STATE_READY
       /\ count_group(ctx, GroupOfCmd(last.cmd)) >= 1)
    => LET starts == CallsOf("start_measurement")
           reads  == CallsOf("read_param")
           ttt    == IF starts = <<>> THEN 0 ELSE starts[1][4]
       IN  /\ Len(starts) = (IF ctx.cb.start_measurement THEN 1 ELSE 0)
           /\ IF ttt = 0
              THEN /\ ctx.state = SDI12_STATE_DATA_READY
                   /\ ctx.data_available
                   /\ Len(reads) = count_group(ctx, GroupOfCmd(last.cmd))
                   /\ ctx.data_cache = [k \in 1..Len(reads) |-> reads[k][3]]
                   /\ \A k \in 1..Len(reads) :
                          /\ ctx.params[reads[k][2] + 1].group = GroupOfCmd(last.cmd)
                          /\ k > 1 => reads[k - 1][2] < reads[k][2]
              ELSE /\ reads = <<>>
                   /\ ~ctx.data_available
                   /\ ctx.state = (IF last.cmd[2] \in {77, 86}
                                   THEN SDI12_STATE_MEASURING
                                   ELSE SDI12_STATE_MEASURING_C)
C3_Witness ==
    /\ AfterMeasurementCmd /\ last.before = SDI12_STATE_READY
    /\ last.cmd = Str(<<"0", "H", "B", "!">>)
    /\ ctx.state = SDI12_STATE_MEASURING_C /\ ~ctx.data_available

\* C4: measurement_done in Measuring caches the values, moves to DataReady
\* and emits one service request: the service_request hook when installed,
\* else "a CR LF" through send_response; in MeasuringConcurrent it caches
\* the values and moves to DataReady and emits nothing.
C4_MeasurementDone ==
    /\ (last.op = "measurement_done" /\ last.before = SDI12_STATE_MEASURING)
       => /\ ctx.state = SDI12_STATE_DATA_READY
          /\ ctx.data_available /\ ctx.data_cache = last.values
          /\ IF ctx.cb.service_request
             THEN last.calls = << <<"service_request">> >> /\ last.sent = <<>>
             ELSE last.calls = <<>> /\ last.sent = << <<ctx.address, 13, 10>> >>
    /\ (last.op = "measurement_done" /\ last.before = SDI12_STATE_MEASURING_C)
       => /\ ctx.state = SDI12_STATE_DATA_READY
          /\ ctx.data_available /\ ctx.data_cache = last.values
          /\ last.calls = <<>> /\ last.sent = <<>>
C4_Witness ==
    /\ last.op = "measurement_done" /\ last.before = SDI12_STATE_MEASURING
    /\ Len(last.values) = MaxDoneCount
    /\ last.sent = << <<ctx.address, 13, 10>> >>

\* C5: measurement_done called in a state other than Measuring and
\* MeasuringConcurrent is ignored: the context (state, cache, count,
\* data_available) is left as it was and nothing is sent.
C5_DoneIgnoredElsewhere ==
    [][ (last'.op = "measurement_done"
           /\ ctx.state \notin {SDI12_STATE_MEASURING, SDI12_STATE_MEASURING_C})
        => (ctx' = ctx /\ last'.sent = <<>> /\ last'.calls = <<>>) ]_vars

\* C6: from every state, break leaves the sensor in Ready with the address,
\* the parameter table and the extended-command table as they were.
C6_BreakToReady ==
    [][ last'.op = "break"
        => /\ ctx'.state = SDI12_STATE_READY
           /\ ctx'.address = ctx.address
           /\ ctx'.params = ctx.params
           /\ ctx'.xcmds = ctx.xcmds ]_vars
C6_Witness ==
    /\ last.op = "break" /\ last.before = SDI12_STATE_MEASURING_C
    /\ ctx.state = SDI12_STATE_READY /\ ctx.address = Asc("z")

\* The reply of the sensor in context c to aD0!.
ReplyToD0(c) ==
    sdi12_sensor_process(c, <<c.address>> \o Str(<<"D", "0", "!">>), DefaultAnswer).sent

ReadyNoData(c) ==
    [c EXCEPT !.state = SDI12_STATE_READY, !.data_available = FALSE,
              !.data_cache = <<>>]

\* C8: a command with the sensor's own address received in
\* MeasuringConcurrent has the effect, the return value, the response and the
\* hook calls it has on the same context in Ready with data_available false
\* and the cache empty; an acknowledge leaves exactly that context.
C8_AddressedAbortsConcurrent ==
    [][ (last'.op = "process" /\ ctx.state = SDI12_STATE_MEASURING_C
           /\ Len(last'.cmd) > 0 /\ last'.cmd[1] = ctx.address)
        => /\ \E h \in HookAnswers(ctx, last'.cmd) :
                LET r == sdi12_sensor_process(ReadyNoData(ctx), last'.cmd, h)
                IN  /\ ctx' = r.ctx
                    /\ last'.ret = r.ret
                    /\ last'.sent = r.sent
                    /\ last'.calls = r.calls
           /\ CmdLen(last'.cmd) = 1 => ctx' = ReadyNoData(ctx) ]_vars
C8_Witness ==
    /\ last.op = "process" /\ last.before = SDI12_STATE_MEASURING_C
    /\ last.cmd = Str(<<"0", "D", "0", "!">>) /\ last.ret = SDI12_OK
    /\ ctx.state = SDI12_STATE_READY /\ ~ctx.data_available

\* C9: a command to another address received in MeasuringConcurrent returns
\* NotAddressed, sends nothing and leaves the context (state, pending
\* measurement, cache, data_available) as it was; measurement_done then
\* still completes the measurement to DataReady with the values cached.
C9_ForeignKeepsConcurrent ==
    [][ (last'.op = "process" /\ ctx.state = SDI12_STATE_MEASURING_C
           /\ CmdLen(last'.cmd) > 0 /\ last'.cmd[1] # ctx.address
           /\ ~(CmdLen(last'.cmd) = 1 /\ last'.cmd[1] = 63))
        => /\ last'.ret = SDI12_ERR_NOT_ADDRESSED
           /\ last'.sent = <<>> /\ last'.calls = <<>>
           /\ ctx' = ctx
           /\ \A values \in DoneValues :
                LET r == sdi12_sensor_measurement_done(ctx', values)
                IN  /\ r.ctx.state = SDI12_STATE_DATA_READY
                    /\ r.ctx.data_available /\ r.ctx.data_cache = values
                    /\ r.sent = <<>> ]_vars
C9_Witness ==
    /\ last.op = "process" /\ last.ret = SDI12_ERR_NOT_ADDRESSED
    /\ last.before = SDI12_STATE_MEASURING_C
    /\ last.cmd = Str(<<"5", "D", "0", "!">>)
    /\ ctx.address = Asc("z") /\ ctx.state = SDI12_STATE_MEASURING_C
    /\ ctx.pending_meas_type = SDI12_MEAS_CONCURRENT

\* The values the last call read through read_param, in order.
ValuesRead == [k \in 1..Len(CallsOf("read_param")) |-> CallsOf("read_param")[k][3]]

\* The context holding only what the last call read.
OnlyFresh(c) ==
    [c EXCEPT !.data_cache = ValuesRead, !.data_available = (ValuesRead # <<>>)]

\* The replies of the sensor in context c to aD0!, aD1! and aDB0!, with the
\* hook calls made.
DataReplies(c) ==
    [ t \in {<<"D", "0", "!">>, <<"D", "1", "!">>, <<"D", "B", "0", "!">>} |->
        LET r == sdi12_sensor_process(c, <<c.address>> \o Str(t), DefaultAnswer)
        IN  <<r.sent, r.calls>> ]

\* C10: after a measurement command to this sensor, one for a group without
\* parameters included, a data request returns no value cached by an earlier
\* measurement: it replies as if the cache held only what this measurement
\* command read.
C10_NoStaleData ==
    AfterMeasurementCmd => DataReplies(ctx) = DataReplies(OnlyFresh(ctx))

\* The reply (the one response sent, <<>> when none) of the sensor in context
\* c to the data request aDp!.
PageReply(c, p) ==
    LET sent == sdi12_sensor_process(c, <<c.address, 68, 48 + p, 33>>,
                                     DefaultAnswer).sent
    IN  IF Len(sent) = 1 THEN sent[1] ELSE <<>>

\* The value region of an ASCII data reply: what lies between the address
\* and the CRC characters (when requested) and CR LF.
ValueRegion(c, resp) ==
    LET body == IF EndsWithCRLF(resp) THEN SubSeq(resp, 1, Len(resp) - 2) ELSE resp
        data == IF c.crc_requested /\ EndsWithCRLF(resp)
                THEN SubSeq(body, 1, Len(body) - 3) ELSE body
    IN  SubSeq(data, 2, Len(data))

RECURSIVE ConcatAll(_)
\* The concatenation of a sequence of byte strings.
ConcatAll(ss) == IF ss = <<>> THEN <<>> ELSE Head(ss) \o ConcatAll(Tail(ss))

\* The texts of the cached values, in cache order.
CacheTexts(c) == [k \in 1..Len(c.data_cache) |-> format_value(c.data_cache[k])]

\* The pages a recorder can ask for: aD0! .. aD9!.
DataPages == 0..9

\* The value regions of the replies to aD0!, aD1!, .. aD9!, in page order.
PageRegions(c) == [k \in 1..10 |-> ValueRegion(c, PageReply(c, k - 1))]

\* C11: whenever data is available, the value regions of the replies to
\* aD0!, aD1!, aD2!, .. concatenated in page order are the texts of all the
\* cached values, each exactly once and in cache order.
C11_PagesCoverCache ==
    ctx.data_available
        => ConcatAll(PageRegions(ctx)) = ConcatAll(CacheTexts(ctx))


\* The replies of the sensor in context c to aR0!, for each reading instant.
ContinuousReplies(c) ==
    { sdi12_sensor_process(c, <<c.address>> \o Str(<<"R", "0", "!">>),
                           [DefaultAnswer EXCEPT !.sample = smp])
      : smp \in {1, LargeSample} }

\* region does not start inside a value: it is empty or starts with a sign.
StartsAtValue(region) == region = <<>> \/ region[1] \in {43, 45}

\* region is made of whole values: the texts of a run of consecutive
\* entries of texts, one after the other.
WholeValues(region, texts) ==
    \E a \in 1..(Len(texts) + 1) : \E b \in (a - 1)..Len(texts) :
        region = ConcatAll(SubSeq(texts, a, b))

\* Every cached value prints in at most SDI12_VALUE_MAX_CHARS characters.
ShortTexts(c) ==
    \A k \in 1..Len(c.data_cache) :
        Len(format_value(c.data_cache[k])) <= SDI12_VALUE_MAX_CHARS

\* C12: the value region of every ASCII data page (each of aD0!..aD9!, and
\* aR0!) is at most 35 bytes long when the pending measurement is Standard or
\* Verification and at most 75 bytes when it is Concurrent, Continuous or
\* HighVolAscii; no page starts inside a value, and a page of values that
\* print in at most 9 characters is made of whole values.
C12_PageWithinBudget ==
    /\ \A p \in DataPages :
          LET region == ValueRegion(ctx, PageReply(ctx, p))
          IN  /\ IsStdOrVerif(ctx.pending_meas_type)
                    => Len(region) <= SDI12_M_VALUES_MAX_CHARS
              /\ ctx.pending_meas_type \in {SDI12_MEAS_CONCURRENT,
                        SDI12_MEAS_CONTINUOUS, SDI12_MEAS_HIGHVOL_ASCII}
                    => Len(region) <= SDI12_C_VALUES_MAX_CHARS
              /\ StartsAtValue(region)
              /\ ShortTexts(ctx) => WholeValues(region, CacheTexts(ctx))
    /\ \A r \in ContinuousReplies(ctx) :
          LET region == ValueRegion(r.ctx, r.sent[1])
          IN  /\ Len(region) <= SDI12_C_VALUES_MAX_CHARS
              /\ StartsAtValue(region)
              /\ ShortTexts(r.ctx) => WholeValues(region, CacheTexts(r.ctx))

\* aD0! has just been answered with a Standard page filled beyond 30 of its
\* 35 bytes.
C12_Witness ==
    /\ last.op = "process" /\ last.cmd = Str(<<"0", "D", "0", "!">>)
    /\ Len(last.sent) = 1
    /\ ctx.pending_meas_type = SDI12_MEAS_STANDARD
    /\ Len(ValueRegion(ctx, last.sent[1])) > 30


\* The width of the count field the header of a measurement type carries,
\* and the largest count it can show.
CountWidth(type) ==
    IF IsStdOrVerif(type) THEN 1
    ELSE IF type = SDI12_MEAS_CONCURRENT THEN 2 ELSE 3
CountMax(type) ==
    IF IsStdOrVerif(type) THEN 9
    ELSE IF type = SDI12_MEAS_CONCURRENT THEN 99 ELSE 999

\* The reply of the sensor in context c to the command with body t, the
\* hooks answering h.
ReplyTo(c, t, h) ==
    LET sent == sdi12_sensor_process(c, <<c.address>> \o Str(t), h).sent
    IN  IF Len(sent) = 1 THEN sent[1] ELSE <<>>

\* C13: the reply to a measurement command is the address, the three digits
\* of ttt (what start_measurement answered, at most 999; 000 when it was not
\* asked), the count of the group's parameters in one digit for Standard and
\* Verification (at most 9), two for Concurrent (at most 99), three for
\* HighVolAscii and HighVolBinary (at most 999), and CR LF, for a group
\* without parameters too; so in every context the reply to aHA! is two bytes
\* longer than the reply to aM!.
C13_MeasurementHeader ==
    /\ AfterMeasurementCmd
        => LET type   == ctx.pending_meas_type
               starts == CallsOf("start_measurement")
               ttt    == IF starts = <<>> THEN 0 ELSE Min(starts[1][4], 999)
               n      == count_group(ctx, GroupOfCmd(last.cmd))
           IN  last.sent = << <<ctx.address>> \o ZeroPad(ttt, 3)
                              \o ZeroPad(Min(n, CountMax(type)), CountWidth(type))
                              \o CRLF >>
    /\ \A h \in DataAnswers(ctx, <<ctx.address, 77, 33>>) :
          Len(ReplyTo(ctx, <<"H", "A", "!">>, h))
              = Len(ReplyTo(ctx, <<"M", "!">>, h)) + 2


RECURSIVE DigitsValue(_)
\* The number a string of decimal digits spells.
DigitsValue(ds) ==
    IF ds = <<>> THEN 0
    ELSE 10 * DigitsValue(SubSeq(ds, 1, Len(ds) - 1)) + (ds[Len(ds)] - 48)

\* The count a measurement header reports: the digits between the address
\* with its three ttt digits and CR LF.
HeaderCount(resp) == DigitsValue(SubSeq(resp, 5, Len(resp) - 2))

\* C14: after every measurement command, for every group size from 0 to 20,
\* the cache holds no more values than the count the header reported.
C14_CacheWithinHeaderCount ==
    AfterMeasurementCmd => Len(ctx.data_cache) <= HeaderCount(last.sent[1])


\* C15: in every reachable state data_cache_count <= param_count <=
\* SDI12_MAX_PARAMS, after measurement_done with any count included; and a
\* register_param call on a full table returns ParamLimit and leaves the
\* context as it was.
C15_CacheWithinParams ==
    /\ Len(ctx.data_cache) <= Len(ctx.params)
    /\ Len(ctx.params) <= SDI12_MAX_PARAMS
    /\ Len(ctx.params) = SDI12_MAX_PARAMS
        => \A group \in 0..SDI12_MAX_MEAS_GROUPS :
             LET r == sdi12_sensor_register_param(ctx, group, Str(<<"T", "A">>),
                                                  Str(<<"C">>), 1)
             IN  r.ret = SDI12_ERR_PARAM_LIMIT /\ r.ctx = ctx
    /\ (last.op = "register_param" /\ last.ret # SDI12_OK)
        => last.ret = SDI12_ERR_PARAM_LIMIT /\ Len(ctx.params) = SDI12_MAX_PARAMS


\* The last call was a change of address aAb! that succeeded.
AfterChangeAddress ==
    /\ last.op = "process" /\ last.ret = SDI12_OK
    /\ Len(last.cmd) >= 3 /\ last.cmd[2] = 65

\* C16: after a successful aAb! the sensor has replied "b CR LF" and called
\* save_address(b) when the hook is installed; from then on it answers b!
\* and ?! with "b CR LF", and, when b differs from a, answers nothing sent
\* to a; and bAa! brings it back to a, where it answers a! again.
C16_ChangeAddress ==
    AfterChangeAddress
    => LET a  == last.cmd[1]
           b  == last.cmd[3]
           r2 == sdi12_sensor_process(ctx, <<b, 65, a, 33>>, DefaultAnswer)
       IN  /\ last.sent = << <<b>> \o CRLF >>
           /\ last.calls = (IF ctx.cb.save_address
                            THEN << <<"save_address", b>> >> ELSE <<>>)
           /\ ctx.address = b
           /\ ReplyTo(ctx, <<"!">>, DefaultAnswer) = <<b>> \o CRLF
           /\ sdi12_sensor_process(ctx, Str(<<"?", "!">>), DefaultAnswer).sent
                  = << <<b>> \o CRLF >>
           /\ a # b => \A body \in SweepBodies :
                  LET r == sdi12_sensor_process(ctx, <<a>> \o body, DefaultAnswer)
                  IN  r.sent = <<>> /\ r.ctx = ctx
           /\ r2.ret = SDI12_OK /\ r2.ctx.address = a
           /\ r2.sent = << <<a>> \o CRLF >>
           /\ ReplyTo(r2.ctx, <<"!">>, DefaultAnswer) = <<a>> \o CRLF

\* The sensor has just been renamed from '5' to 'z' and the host's
\* save_address hook was called.
C16_Witness ==
    /\ AfterChangeAddress
    /\ last.cmd = Str(<<"5", "A", "z", "!">>)
    /\ last.calls = << <<"save_address", Asc("z")>> >>
    /\ ctx.address = Asc("z")


\* The bytes that are no SDI-12 address.
InvalidAddresses == (0..127) \ ValidAddresses

\* C17: the address of the context is always one of the 62 valid address
\* characters: after init it is what load_address returned when the hook is
\* installed and returned a valid address, else the default given to init;
\* and aAb! with a b that is no valid address returns an error, sends
\* nothing and leaves the address as it was.
C17_AddressValid ==
    /\ Cardinality(ValidAddresses) = 62
    /\ ctx.address \in ValidAddresses
    /\ last.op = "init"
        => LET loads == CallsOf("load_address")
           IN  /\ Len(loads) = (IF ctx.cb.load_address THEN 1 ELSE 0)
               /\ ctx.address = (IF loads # <<>> /\ loads[1][2] \in ValidAddresses
                                 THEN loads[1][2] ELSE Addr0)
    /\ \A b \in InvalidAddresses :
          LET r == sdi12_sensor_process(ctx, <<ctx.address, 65, b, 33>>, DefaultAnswer)
          IN  /\ r.ret = SDI12_ERR_INVALID_ADDRESS
              /\ r.sent = <<>>
              /\ r.calls = <<>>
              /\ r.ctx.address = ctx.address
    /\ (last.op = "process" /\ last.cmd = Str(<<"0", "A", "$", "!">>)
           /\ last.ret # SDI12_ERR_NOT_ADDRESSED)
        => /\ last.ret = SDI12_ERR_INVALID_ADDRESS
           /\ last.sent = <<>>
           /\ ctx.address = Addr0

\* A sensor whose host has the load_address hook has just refused "0A$!"
\* and is still at '0'.
C17_Witness ==
    /\ last.op = "process" /\ last.cmd = Str(<<"0", "A", "$", "!">>)
    /\ last.ret = SDI12_ERR_INVALID_ADDRESS
    /\ ctx.cb.load_address
    /\ ctx.address = Addr0


\* The data requests of a recorder: aD0!..aD9! and aDB0!, aDB1!.
DataRequests ==
    { <<68, 48 + p, 33>> : p \in DataPages } \cup { <<68, 66, 48 + p, 33>> : p \in 0..1 }

\* The context after the high-volume command with body t, measured at once
\* (no wait) at the instant smp.
AfterHighVol(c, t, smp) ==
    sdi12_sensor_process(c, <<c.address>> \o Str(t),
                         [DefaultAnswer EXCEPT !.sample = smp]).ctx

\* C18: without format_binary_page hook, every data request (aDn!, aDBn!)
\* after aHB! is answered in ASCII framing (address first, CR LF last) and
\* with the reply the same request gets after aHA! on the same parameters
\* and readings.
C18_BinaryFallsBackToAscii ==
    ~ctx.cb.format_binary_page
    => \A smp \in {1, LargeSample} : \A req \in DataRequests :
         LET hb == sdi12_sensor_process(AfterHighVol(ctx, <<"H", "B", "!">>, smp),
                                        <<ctx.address>> \o req, DefaultAnswer)
             ha == sdi12_sensor_process(AfterHighVol(ctx, <<"H", "A", "!">>, smp),
                                        <<ctx.address>> \o req, DefaultAnswer)
         IN  /\ Len(hb.sent) = 1
             /\ hb.sent[1][1] = ctx.address
             /\ EndsWithCRLF(hb.sent[1])
             /\ hb.sent = ha.sent


\* Extended commands for the registered "EC" handler, which answers with
\* "ECHO:" and the command text: a short one, and one whose echo is longer
\* than the response buffer.
EchoCmds(c) ==
    { <<c.address>> \o Str(<<"X", "E", "C">>) \o [k \in 1..n |-> 65] \o <<33>>
      : n \in {1, SDI12_MAX_RESPONSE_LEN} }

\* The calls whose response is text: the data requests aD0!..aD9!, aR0! at
\* either reading instant, and the extended commands.
TextCalls(c) ==
    { sdi12_sensor_process(c, <<c.address, 68, 48 + p, 33>>, DefaultAnswer)
      : p \in DataPages }
    \cup ContinuousReplies(c)
    \cup { sdi12_sensor_process(c, cmd, DefaultAnswer) : cmd \in EchoCmds(c) }

\* C19: a process call either returns BufferOverflow and sends nothing, or
\* returns OK having sent one response that lies within the 82-byte buffer,
\* ends with CR LF and, for a data request, carries whole values only: no
\* response is cut short.
C19_OverflowSurfaced ==
    \A r \in TextCalls(ctx) :
        /\ r.ret \in {SDI12_OK, SDI12_ERR_BUFFER_OVERFLOW}
        /\ r.ret = SDI12_ERR_BUFFER_OVERFLOW => r.sent = <<>>
        /\ r.ret = SDI12_OK
            => /\ Len(r.sent) = 1
               /\ Len(r.sent[1]) < SDI12_MAX_RESPONSE_LEN
               /\ EndsWithCRLF(r.sent[1])
               /\ \/ \E k \in 1..Len(r.calls) : r.calls[k][1] = "xcmd"
                  \/ WholeValues(ValueRegion(r.ctx, r.sent[1]), CacheTexts(r.ctx))


\* The reply to aD0! that follows the measurement command with body t, the
\* measurement made at once at the instant smp.
D0After(c, t, smp) ==
    PageReply(sdi12_sensor_process(c, <<c.address>> \o Str(t),
                                   [DefaultAnswer EXCEPT !.sample = smp]).ctx, 0)

\* C20: the reply to aD0! after aMC! is the reply to aD0! after aM! with
\* three CRC characters put in before CR LF, so exactly three bytes longer,
\* and sdi12_crc_verify accepts it.
C20_CrcVariantAddsThree ==
    \A smp \in {1, LargeSample} :
        LET m  == D0After(ctx, <<"M", "!">>, smp)
            mc == D0After(ctx, <<"M", "C", "!">>, smp)
        IN  /\ EndsWithCRLF(m) /\ EndsWithCRLF(mc)
            /\ Len(mc) = Len(m) + 3
            /\ SubSeq(mc, 1, Len(m) - 2) = SubSeq(m, 1, Len(m) - 2)
            /\ sdi12_crc_verify(mc)


\* p is a prefix of s.
IsPrefix(p, s) == Len(p) <= Len(s) /\ SubSeq(s, 1, Len(p)) = p

\* The last call was an extended command aX...! to this sensor.
AfterExtended ==
    /\ last.op = "process" /\ last.ret # SDI12_ERR_NOT_ADDRESSED
    /\ Len(last.cmd) >= 2 /\ last.cmd[2] = 88

\* C21: for aX...! the handlers are scanned in registration order and only
\* the first whose prefix is a prefix of the command body is called; when it
\* returns OK the engine sends its response, terminated by CR LF; when no
\* prefix matches, the reply is the address and CR LF and process returns OK.
C21_ExtendedDispatch ==
    AfterExtended
    => LET body    == SubSeq(last.cmd, 3, CmdLen(last.cmd))
           xstr    == SubSeq(last.cmd, 3, Len(last.cmd))
           matches == {i \in 1..Len(ctx.xcmds) : IsPrefix(ctx.xcmds[i].prefix, body)}
           first   == CHOOSE i \in matches : \A j \in matches : i <= j
           answer  == XcmdHandler(ctx.xcmds[first].handler, xstr, <<ctx.address>>)
       IN  IF matches = {}
           THEN /\ last.ret = SDI12_OK
                /\ last.sent = << <<ctx.address>> \o CRLF >>
                /\ last.calls = <<>>
           ELSE /\ last.calls = << <<"xcmd", first - 1, xstr>> >>
                /\ last.ret = answer.err
                /\ answer.err = SDI12_OK
                    => /\ Len(last.sent) = 1
                       /\ EndsWithCRLF(last.sent[1])
                       /\ last.sent[1] \in {answer.buf, answer.buf \o CRLF}


\* The kinds of identify-measurement command: the text between "aI" and the
\* group digit, with the measurement it describes and whether it asks for a
\* CRC.
MetaKinds ==
    { [text |-> Str(<<"M">>),      crc |-> FALSE, grouped |-> TRUE],
      [text |-> Str(<<"M", "C">>), crc |-> TRUE,  grouped |-> TRUE],
      [text |-> Str(<<"C">>),      crc |-> FALSE, grouped |-> TRUE],
      [text |-> Str(<<"C", "C">>), crc |-> TRUE,  grouped |-> TRUE],
      [text |-> Str(<<"V">>),      crc |-> FALSE, grouped |-> FALSE],
      [text |-> Str(<<"H", "A">>), crc |-> FALSE, grouped |-> FALSE],
      [text |-> Str(<<"H", "B">>), crc |-> FALSE, grouped |-> FALSE],
      [text |-> Str(<<"R">>),      crc |-> FALSE, grouped |-> TRUE],
      [text |-> Str(<<"R", "C">>), crc |-> TRUE,  grouped |-> TRUE] }

\* The group digits swept: none (group 0), '1' and '9'.
MetaGroupDigits == {0, 1, 9}
MetaDigitsOf(kind) == IF kind.grouped THEN MetaGroupDigits ELSE {0}
GroupText(kind, g) ==
    IF g = 0 /\ kind.text[1] # 82 THEN <<>> ELSE <<48 + g>>

\* The parameter numbers swept: 000, 001, 002, 003 and 021.
MetaNumbers == {0, 1, 2, 3, 21}

\* The text a response is framed into: CRC characters when asked, CR LF.
Framed(base, crc) ==
    IF crc THEN base \o sdi12_crc_encode_ascii(sdi12_crc16(base)) \o CRLF
    ELSE base \o CRLF

\* C22: the reply to an identify-measurement command with _nnn is
\* "a,shef,units;" for the nnn-th (1-based) parameter of the indicated group
\* in registration order when there is one, and the address only when nnn
\* is 0 or beyond the group; followed by the CRC characters when the command
\* is a CRC variant, and CR LF.
C22_ParameterMetadata ==
    \A kind \in MetaKinds : \A g \in MetaDigitsOf(kind) : \A nnn \in MetaNumbers :
        LET cmd     == <<ctx.address, 73>> \o kind.text \o GroupText(kind, g)
                       \o <<95>> \o ZeroPad(nnn, 3) \o <<33>>
            r       == sdi12_sensor_process(ctx, cmd, DefaultAnswer)
            members == collect_group_indices(ctx, g, SDI12_MAX_PARAMS)
            param   == ctx.params[members[nnn] + 1]
            base    == IF nnn >= 1 /\ nnn <= Len(members)
                       THEN <<ctx.address, 44>> \o param.shef \o <<44>>
                            \o param.units \o <<59>>
                       ELSE <<ctx.address>>
        IN  /\ r.ret = SDI12_OK
            /\ r.sent = << Framed(base, kind.crc) >>


\* The kinds of measurement command an identify-measurement command can
\* describe, and the width of the count field of each.
MeasKinds == { kind \in MetaKinds : kind.text[1] # 82 }
KindCountWidth(kind) ==
    IF kind.text[1] \in {77, 86} THEN 1 ELSE IF kind.text[1] = 67 THEN 2 ELSE 3
KindCountMax(kind) ==
    IF kind.text[1] \in {77, 86} THEN 9 ELSE IF kind.text[1] = 67 THEN 99 ELSE 999

\* The single response to a command, empty when none or several were sent.
OnlyReply(c, cmd) ==
    LET sent == sdi12_sensor_process(c, cmd, DefaultAnswer).sent
    IN  IF Len(sent) = 1 THEN sent[1] ELSE <<>>

\* C23: on a sensor without start_measurement hook, for every kind M, MC, C,
\* CC, V, HA, HB and every group, a group without parameters included, the
\* reply to the identify-measurement command without _nnn is the address,
\* three ttt digits, the number of parameters of the group saturated per
\* type in the count width of the type, and CR LF, and it is as long as the
\* reply of the measurement command itself.
C23_IdentifyMatchesMeasurement ==
    ~ctx.cb.start_measurement
    => \A kind \in MeasKinds : \A g \in MetaDigitsOf(kind) :
          LET body  == kind.text \o GroupText(kind, g) \o <<33>>
              ident == OnlyReply(ctx, <<ctx.address, 73>> \o body)
              meas  == OnlyReply(ctx, <<ctx.address>> \o body)
              n     == count_group(ctx, g)
          IN  /\ ident = <<ctx.address>> \o Zeros(3)
                         \o ZeroPad(Min(n, KindCountMax(kind)), KindCountWidth(kind))
                         \o CRLF
              /\ Len(meas) = Len(ident)
              /\ SubSeq(meas, 5, Len(meas)) = SubSeq(ident, 5, Len(ident))


(***************************************************************************)
(* The master (data recorder): sdi12_master.c.                             *)
(*                                                                         *)
(* The bus is what the recv hook will hand over: a sequence of arrivals,   *)
(* each the bytes one call can return.  A call takes at most buflen bytes  *)
(* of the first arrival and leaves the remainder for the next call; an     *)
(* empty arrival, or an exhausted bus, is a call that times out with 0     *)
(* bytes.  Every engine function returns the context, the hook calls it    *)
(* made in order, and what is left of the bus.                             *)
(***************************************************************************)
SDI12_ERR_TIMEOUT      == "ERR_TIMEOUT"
SDI12_ERR_CRC_MISMATCH == "ERR_CRC_MISMATCH"

SDI12_CMD_MAX_CHARS == 20
SDI12_RESPONSE_TIMEOUT_MS == 15
SDI12_MULTILINE_GAP_MS == 150
SDI12_BIN_MAX_PAYLOAD == 1000
SDI12_C_MAX_VALUES == 99
\* sizeof(ctx->resp_buf) - 1
RespBufMax == SDI12_MAX_RESPONSE_LEN + 4 - 1

\* The recv hook: up to buflen bytes of the first arrival.
recv(bus, buflen) ==
    IF bus = <<>> THEN [data |-> <<>>, bus |-> <<>>]
    ELSE LET a == Head(bus)
             n == Min(Len(a), buflen)
         IN  [data |-> SubSeq(a, 1, n),
              bus  |-> IF n < Len(a)
                       THEN <<SubSeq(a, n + 1, Len(a))>> \o Tail(bus)
                       ELSE Tail(bus)]

RECURSIVE trim_crlf(_, _)
\* trim_crlf: overwrites the trailing CR and LF bytes of buf[0..len) with NUL
\* and returns the buffer with the new length.
trim_crlf(buf, len) ==
    IF len > 0 /\ buf[len] \in {13, 10}
    THEN trim_crlf([buf EXCEPT ![len] = 0], len - 1)
    ELSE [buf |-> buf, len |-> len]

\* send_command: cmd is a C string.
send_command(m, cmd) ==
    IF Len(cmd) > SDI12_CMD_MAX_CHARS
    THEN [ctx |-> m, ret |-> SDI12_ERR_INVALID_COMMAND, calls |-> <<>>]
    ELSE [ctx   |-> [m EXCEPT !.cmd_buf = cmd],
          ret   |-> SDI12_OK,
          calls |-> << <<"set_direction", "TX">>, <<"send", cmd>>,
                       <<"set_direction", "RX">> >>]

\* recv_response
recv_response(m, timeout_ms, bus) ==
    LET r    == recv(bus, RespBufMax)
        call == <<"recv", RespBufMax, timeout_ms>>
    IN  IF r.data = <<>>
        THEN [ctx |-> [m EXCEPT !.resp_len = 0], ret |-> SDI12_ERR_TIMEOUT,
              calls |-> <<call>>, bus |-> r.bus]
        ELSE [ctx |-> [m EXCEPT !.resp_len = Len(r.data), !.resp_buf = r.data],
              ret |-> SDI12_OK, calls |-> <<call>>, bus |-> r.bus]

\* A transaction that stops after one receive, as a mutant retries it once.
sdi12_master_transact_retry(m, cmd, timeout_ms, bus) ==
    LET s  == send_command(m, cmd)
        r  == recv_response(s.ctx, timeout_ms, bus)
        r2 == recv_response(r.ctx, timeout_ms, r.bus)
    IN  IF s.ret # SDI12_OK
        THEN [ctx |-> s.ctx, ret |-> s.ret, calls |-> s.calls, bus |-> bus]
        ELSE IF r.ret = SDI12_OK
        THEN [ctx |-> r.ctx, ret |-> r.ret, calls |-> s.calls \o r.calls, bus |-> r.bus]
        ELSE [ctx |-> r2.ctx, ret |-> r2.ret,
              calls |-> s.calls \o r.calls \o r2.calls, bus |-> r2.bus]

\* sdi12_master_transact
sdi12_master_transact(m, cmd, timeout_ms, bus) ==
    LET s == send_command(m, cmd)
        r == recv_response(s.ctx, timeout_ms, bus)
    IN  IF s.ret # SDI12_OK
        THEN [ctx |-> s.ctx, ret |-> s.ret, calls |-> s.calls, bus |-> bus]
        ELSE [ctx |-> r.ctx, ret |-> r.ret, calls |-> s.calls \o r.calls, bus |-> r.bus]

\* An acknowledge that reports any answer as presence.
sdi12_master_acknowledge_any_answer(m, addr, bus) ==
    IF ~sdi12_valid_address(addr)
    THEN [ctx |-> m, ret |-> SDI12_ERR_INVALID_ADDRESS, calls |-> <<>>, bus |-> bus,
          out |-> [present |-> "unset"]]
    ELSE LET t == sdi12_master_transact(m, <<addr, 33>>, SDI12_RESPONSE_TIMEOUT_MS, bus)
         IN  IF t.ret = SDI12_ERR_TIMEOUT
             THEN [t EXCEPT !.ret = SDI12_OK] @@ [out |-> [present |-> FALSE]]
             ELSE IF t.ret # SDI12_OK THEN t @@ [out |-> [present |-> "unset"]]
             ELSE t @@ [out |-> [present |-> TRUE]]

\* sdi12_master_acknowledge: *present is "unset" when it is not written.
sdi12_master_acknowledge(m, addr, bus) ==
    IF ~sdi12_valid_address(addr)
    THEN [ctx |-> m, ret |-> SDI12_ERR_INVALID_ADDRESS, calls |-> <<>>, bus |-> bus,
          out |-> [present |-> "unset"]]
    ELSE LET t  == sdi12_master_transact(m, <<addr, 33>>, SDI12_RESPONSE_TIMEOUT_MS, bus)
             tr == trim_crlf(t.ctx.resp_buf, t.ctx.resp_len)
         IN  IF t.ret = SDI12_ERR_TIMEOUT
             THEN [t EXCEPT !.ret = SDI12_OK] @@ [out |-> [present |-> FALSE]]
             ELSE IF t.ret # SDI12_OK THEN t @@ [out |-> [present |-> "unset"]]
             ELSE [t EXCEPT !.ctx.resp_buf = tr.buf]
                  @@ [out |-> [present |-> tr.len >= 1 /\ tr.buf[1] = addr]]

RECURSIVE parse_digits(_, _)
\* parse_digits: the leading decimal digits of the C string s, at most max
\* of them, as [n, out].
parse_digits(s, max) ==
    IF max > 0 /\ IsDigit(At(s, 0))
    THEN LET r == parse_digits(Tail(s), max - 1)
         IN  [n |-> r.n + 1, digits |-> <<At(s, 0)>> \o r.digits]
    ELSE [n |-> 0, digits |-> <<>>]

\* sdi12_master_parse_meas_response: resp_str is the memory the pointer
\* designates, which may hold more than len bytes.
sdi12_master_parse_meas_response(resp_str, len, type) ==
    LET zero  == [address |-> 0, wait_seconds |-> 0, value_count |-> 0]
        r1    == [zero EXCEPT !.address = At(resp_str, 0)]
        ttt   == parse_digits(SubSeq(resp_str, 2, Len(resp_str)), 3)
        r2    == [r1 EXCEPT !.wait_seconds = DigitsValue(ttt.digits) % 65536]
        width == IF type \in {SDI12_MEAS_STANDARD, SDI12_MEAS_VERIFICATION} THEN 1
                 ELSE IF type \in {SDI12_MEAS_CONCURRENT, SDI12_MEAS_CONTINUOUS} THEN 2
                 ELSE 3
        count == parse_digits(SubSeq(resp_str, 5, Len(resp_str)), width)
    IN  IF len < 5 THEN [ret |-> SDI12_ERR_INVALID_COMMAND, resp |-> zero]
        ELSE IF ttt.n # 3 THEN [ret |-> SDI12_ERR_INVALID_COMMAND, resp |-> r1]
        ELSE IF count.n # width THEN [ret |-> SDI12_ERR_INVALID_COMMAND, resp |-> r2]
        ELSE [ret |-> SDI12_OK,
              resp |-> [r2 EXCEPT !.value_count = DigitsValue(count.digits) % 65536]]

RECURSIVE StripTrailingZeros(_)
StripTrailingZeros(ds) ==
    IF ds # <<>> /\ ds[Len(ds)] = 48
    THEN StripTrailingZeros(SubSeq(ds, 1, Len(ds) - 1)) ELSE ds

\* strtod on a sign followed by digits and dots: the number the text up to
\* a second dot spells, as [num, scale] for num / 10^scale with the fewest
\* decimals (the rounding of the cast to float is not represented).
strtod(vbuf) ==
    LET body  == Tail(vbuf)
        int   == parse_digits(body, Len(body)).digits
        rest  == SubSeq(body, Len(int) + 1, Len(body))
        frac  == IF rest # <<>> /\ rest[1] = 46
                 THEN StripTrailingZeros(parse_digits(Tail(rest), Len(rest)).digits)
                 ELSE <<>>
        mag   == DigitsValue(int \o frac)
    IN  [num |-> IF vbuf[1] = 45 THEN -mag ELSE mag, scale |-> Len(frac)]

RECURSIVE ParseValues(_, _, _, _, _)
\* The loop of sdi12_master_parse_data_values from position pos on.
ParseValues(resp_str, data_len, pos, max_values, values) ==
    IF ~(pos < data_len /\ Len(values) < max_values) THEN values
    ELSE IF resp_str[pos + 1] = 32
    THEN ParseValues(resp_str, data_len, pos + 1, max_values, values)
    ELSE IF resp_str[pos + 1] \notin {43, 45}
    THEN ParseValues(resp_str, data_len, pos + 1, max_values, values)
    ELSE LET body == parse_digits(
                        [i \in 1..(data_len - pos - 1) |->
                            IF resp_str[pos + 1 + i] = 46 THEN 48
                            ELSE resp_str[pos + 1 + i]],
                        data_len)
             end  == pos + 1 + body.n
             vlen == Min(end - pos, SDI12_VALUE_MAX_CHARS)
             vbuf == SubSeq(resp_str, pos + 1, pos + vlen)
             dot  == IndexOf(vbuf, 46, 0, vlen)
             v    == [value    |-> strtod(vbuf),
                      decimals |-> IF dot >= 0 THEN vlen - dot - 1 ELSE 0]
         IN  ParseValues(resp_str, data_len, end, max_values,
                         IF end > pos + 1 THEN Append(values, v) ELSE values)

\* A parser that takes the last three characters for a CRC whether asked
\* to or not.
sdi12_master_parse_data_values_always_strips(resp_str, len, max_values, verify_crc) ==
    LET data_len == IF len >= 3 THEN len - 3 ELSE len
        values   == ParseValues(resp_str, data_len, 0, max_values, <<>>)
    IN  [ret |-> SDI12_OK, values |-> values, count |-> Len(values)]

\* sdi12_master_parse_data_values
sdi12_master_parse_data_values(resp_str, len, max_values, verify_crc) ==
    LET data_len == IF verify_crc /\ len >= 3 THEN len - 3 ELSE len
        values   == ParseValues(resp_str, data_len, 0, max_values, <<>>)
    IN  [ret |-> SDI12_OK, values |-> values, count |-> Len(values)]

\* sdi12_master_get_data
sdi12_master_get_data(m, addr, page, crc, bus) ==
    IF ~sdi12_valid_address(addr)
    THEN [ctx |-> m, ret |-> SDI12_ERR_INVALID_ADDRESS, calls |-> <<>>, bus |-> bus,
          out |-> "unset"]
    ELSE LET t  == sdi12_master_transact(m, <<addr, 68>> \o DecDigits(page) \o <<33>>,
                                         SDI12_RESPONSE_TIMEOUT_MS, bus)
             tr == trim_crlf(t.ctx.resp_buf, t.ctx.resp_len)
             t2 == [t EXCEPT !.ctx.resp_buf = tr.buf]
             p  == sdi12_master_parse_data_values(Tail(tr.buf), tr.len - 1,
                                                  SDI12_C_MAX_VALUES, crc)
         IN  IF t.ret # SDI12_OK THEN t @@ [out |-> "unset"]
             ELSE IF tr.len < 1
             THEN [t2 EXCEPT !.ret = SDI12_ERR_INVALID_COMMAND] @@ [out |-> "unset"]
             ELSE [t2 EXCEPT !.ret = p.ret]
                  @@ [out |-> [address |-> tr.buf[1], values |-> p.values,
                               value_count |-> p.count]]

RECURSIVE recv_exact(_, _, _, _)
\* recv_exact: reads count bytes in as many calls as it takes; got is what
\* was read so far.
recv_exact(bus, got, count, timeout_ms) ==
    IF Len(got) >= count
    THEN [ret |-> SDI12_OK, data |-> got, calls |-> <<>>, bus |-> bus]
    ELSE LET r    == recv(bus, count - Len(got))
             call == <<"recv", count - Len(got), timeout_ms>>
             more == recv_exact(r.bus, got \o r.data, count, timeout_ms)
         IN  IF r.data = <<>>
             THEN [ret |-> SDI12_ERR_TIMEOUT, data |-> got, calls |-> <<call>>,
                   bus |-> r.bus]
             ELSE [more EXCEPT !.calls = <<call>> \o more.calls]

\* A binary read that accepts the packet whatever its CRC bytes.
sdi12_master_get_hv_binary_data_no_crc_check(m, addr, page, out_len, bus) ==
    LET unset    == [type |-> "unset", payload |-> "unset", len |-> out_len]
        s        == send_command(m, <<addr, 68, 66>> \o DecDigits(page) \o <<33>>)
        hdr      == recv_exact(bus, <<>>, 3, SDI12_RESPONSE_TIMEOUT_MS)
        pkt_size == hdr.data[2] + 256 * hdr.data[3]
        typ      == recv_exact(hdr.bus, <<>>, 1, SDI12_RESPONSE_TIMEOUT_MS)
        typed    == [unset EXCEPT !.type = typ.data[1]]
        tail_len == pkt_size + 2
        tail     == recv_exact(typ.bus, <<>>, tail_len, SDI12_RESPONSE_TIMEOUT_MS)
        copy_len == Min(pkt_size, out_len)
    IN  IF ~sdi12_valid_address(addr)
        THEN [ctx |-> m, ret |-> SDI12_ERR_INVALID_ADDRESS, calls |-> <<>>,
              bus |-> bus, out |-> unset]
        ELSE IF s.ret # SDI12_OK
        THEN [ctx |-> s.ctx, ret |-> s.ret, calls |-> s.calls, bus |-> bus, out |-> unset]
        ELSE IF hdr.ret # SDI12_OK
        THEN [ctx |-> s.ctx, ret |-> hdr.ret, calls |-> s.calls \o hdr.calls,
              bus |-> hdr.bus, out |-> unset]
        ELSE IF typ.ret # SDI12_OK
        THEN [ctx |-> s.ctx, ret |-> typ.ret, calls |-> s.calls \o hdr.calls \o typ.calls,
              bus |-> typ.bus, out |-> unset]
        ELSE IF pkt_size > SDI12_BIN_MAX_PAYLOAD
        THEN [ctx |-> s.ctx, ret |-> SDI12_ERR_BUFFER_OVERFLOW,
              calls |-> s.calls \o hdr.calls \o typ.calls, bus |-> typ.bus,
              out |-> typed]
        ELSE IF tail.ret # SDI12_OK
        THEN [ctx |-> s.ctx, ret |-> tail.ret,
              calls |-> s.calls \o hdr.calls \o typ.calls \o tail.calls,
              bus |-> tail.bus, out |-> typed]
        ELSE [ctx |-> [s.ctx EXCEPT !.resp_len = 3 + 1 + tail_len],
              ret |-> SDI12_OK,
              calls |-> s.calls \o hdr.calls \o typ.calls \o tail.calls,
              bus |-> tail.bus,
              out |-> [type |-> typ.data[1],
                       payload |-> SubSeq(tail.data, 1, copy_len),
                       len |-> pkt_size]]

\* sdi12_master_get_hv_binary_data: out_len is the room the caller gives;
\* the outputs are "unset" where the function wrote nothing.
sdi12_master_get_hv_binary_data(m, addr, page, out_len, bus) ==
    LET unset    == [type |-> "unset", payload |-> "unset", len |-> out_len]
        s        == send_command(m, <<addr, 68, 66>> \o DecDigits(page) \o <<33>>)
        hdr      == recv_exact(bus, <<>>, 3, SDI12_RESPONSE_TIMEOUT_MS)
        pkt_size == hdr.data[2] + 256 * hdr.data[3]
        typ      == recv_exact(hdr.bus, <<>>, 1, SDI12_RESPONSE_TIMEOUT_MS)
        typed    == [unset EXCEPT !.type = typ.data[1]]
        tail_len == pkt_size + 2
        tail     == recv_exact(typ.bus, <<>>, tail_len, SDI12_RESPONSE_TIMEOUT_MS)
        crc      == sdi12_crc16(hdr.data \o typ.data \o SubSeq(tail.data, 1, pkt_size))
        received_crc == tail.data[pkt_size + 1] + 256 * tail.data[pkt_size + 2]
        copy_len == Min(pkt_size, out_len)
    IN  IF ~sdi12_valid_address(addr)
        THEN [ctx |-> m, ret |-> SDI12_ERR_INVALID_ADDRESS, calls |-> <<>>,
              bus |-> bus, out |-> unset]
        ELSE IF s.ret # SDI12_OK
        THEN [ctx |-> s.ctx, ret |-> s.ret, calls |-> s.calls, bus |-> bus, out |-> unset]
        ELSE IF hdr.ret # SDI12_OK
        THEN [ctx |-> s.ctx, ret |-> hdr.ret, calls |-> s.calls \o hdr.calls,
              bus |-> hdr.bus, out |-> unset]
        ELSE IF typ.ret # SDI12_OK
        THEN [ctx |-> s.ctx, ret |-> typ.ret, calls |-> s.calls \o hdr.calls \o typ.calls,
              bus |-> typ.bus, out |-> unset]
        ELSE IF pkt_size > SDI12_BIN_MAX_PAYLOAD
        THEN [ctx |-> s.ctx, ret |-> SDI12_ERR_BUFFER_OVERFLOW,
              calls |-> s.calls \o hdr.calls \o typ.calls, bus |-> typ.bus,
              out |-> typed]
        ELSE IF tail.ret # SDI12_OK
        THEN [ctx |-> s.ctx, ret |-> tail.ret,
              calls |-> s.calls \o hdr.calls \o typ.calls \o tail.calls,
              bus |-> tail.bus, out |-> typed]
        ELSE IF crc # received_crc
        THEN [ctx |-> s.ctx, ret |-> SDI12_ERR_CRC_MISMATCH,
              calls |-> s.calls \o hdr.calls \o typ.calls \o tail.calls,
              bus |-> tail.bus, out |-> typed]
        ELSE [ctx |-> [s.ctx EXCEPT !.resp_len = 3 + 1 + tail_len],
              ret |-> SDI12_OK,
              calls |-> s.calls \o hdr.calls \o typ.calls \o tail.calls,
              bus |-> tail.bus,
              out |-> [type |-> typ.data[1],
                       payload |-> SubSeq(tail.data, 1, copy_len),
                       len |-> pkt_size]]


(***************************************************************************)
(* The master as a state machine: ctx is the sdi12_master_ctx_t, last the  *)
(* operation just performed with its arguments, return value, hook calls   *)
(* and outputs.                                                            *)
(***************************************************************************)
\* sdi12_master_init: the context zeroed.
InitMaster ==
    /\ ctx = [cmd_buf |-> <<>>, resp_buf |-> <<>>, resp_len |-> 0]
    /\ last = [op |-> "init", args |-> <<>>, ret |-> SDI12_OK, calls |-> <<>>,
               out |-> "unset"]

\* A text response: the bytes of one line with CR LF.
Line(t) == Str(t) \o CRLF

\* Commands of 3, 20 and 21 characters.
TransactCmds ==
    { Str(<<"0", "M", "!">>),
      <<48, 88>> \o [i \in 1..17 |-> 65] \o <<33>>,
      <<48, 88>> \o [i \in 1..18 |-> 65] \o <<33>> }

\* What the bus holds for a text transaction: nothing, one line, nothing
\* within the timeout and a line after it, two lines, a line of 90 bytes.
TextBuses ==
    { <<>>,
      << Line(<<"0">>) >>,
      << Line(<<"0", "0", "0", "1", "3">>) >>,
      << <<>>, Line(<<"0">>) >>,
      << Line(<<"0">>), Line(<<"1">>) >>,
      << [i \in 1..90 |-> 65] >> }

\* An operation that refuses its arguments asks the bus nothing, so one bus
\* stands for all of them.
BusesFor(asked, buses) == IF asked THEN buses ELSE {<<>>}

Transact ==
    \E cmd \in TransactCmds :
    \E bus \in BusesFor(Len(cmd) <= SDI12_CMD_MAX_CHARS, TextBuses) :
    \E timeout_ms \in {SDI12_RESPONSE_TIMEOUT_MS, 1000} :
    \E r \in {sdi12_master_transact(ctx, cmd, timeout_ms, bus)} :
        /\ ctx' = r.ctx
        /\ last' = [op |-> "transact", args |-> <<cmd, timeout_ms, bus>>,
                    ret |-> r.ret, calls |-> r.calls, out |-> "unset"]

\* What answers an acknowledge: nothing, the address with and without
\* CR LF, another address, CR LF alone, a late answer, CR before the address.
AckBuses ==
    { <<>>,
      << Line(<<"0">>) >>, << Str(<<"0">>) >>, << Line(<<"z">>) >>,
      << Line(<<"1">>) >>, << CRLF >>, << <<>>, Line(<<"0">>) >>,
      << <<13>> \o Line(<<"0">>) >>, << Line(<<"0", "0">>) >> }

Acknowledge ==
    \E addr \in {Asc("0"), Asc("z"), Asc("$")} :
    \E bus \in BusesFor(sdi12_valid_address(addr), AckBuses) :
    \E r \in {sdi12_master_acknowledge(ctx, addr, bus)} :
        /\ ctx' = r.ctx
        /\ last' = [op |-> "acknowledge", args |-> <<addr, bus>>,
                    ret |-> r.ret, calls |-> r.calls, out |-> r.out]

\* The values part of data responses.
DataTexts ==
    { Str(<<"+", "1", ".", "5", "-", "2">>),
      Str(<<"+", "1", "2", ".", "5", "0">>),
      Str(<<"-", "0", ".", "2", "5", "+", "7">>),
      <<>> }

\* A text with one character replaced by the next one of the alphabet.
Corrupt(t, i) == [t EXCEPT ![i] = IF t[i] = 126 THEN 64 ELSE t[i] + 1]

\* Data responses of sensor '0': without CRC, with the right CRC, with a
\* CRC character damaged, with a value character damaged under the
\* original CRC; and no response.
DataBuses ==
    { <<>> }
    \cup { << <<48>> \o t \o CRLF >> : t \in DataTexts }
    \cup { << Framed(<<48>> \o t, TRUE) >> : t \in DataTexts }
    \cup { << Corrupt(Framed(<<48>> \o t, TRUE), Len(t) + 2) >> : t \in DataTexts }
    \cup { << Corrupt(Framed(<<48>> \o t, TRUE), 3) >> : t \in DataTexts \ {<<>>} }

GetData ==
    \E addr \in {Asc("0"), Asc("$")} : \E page \in {3} : \E crc \in BOOLEAN :
    \E bus \in BusesFor(sdi12_valid_address(addr), DataBuses) :
    \E r \in {sdi12_master_get_data(ctx, addr, page, crc, bus)} :
        /\ ctx' = r.ctx
        /\ last' = [op |-> "get_data", args |-> <<addr, page, crc, bus>>,
                    ret |-> r.ret, calls |-> r.calls, out |-> r.out]

\* A binary packet of sensor '0': address, payload size little endian, type,
\* payload, CRC-16 little endian.
Packet(type, payload) ==
    LET pkt == <<48, Len(payload) % 256, Len(payload) \div 256, type>> \o payload
        crc == sdi12_crc16(pkt)
    IN  pkt \o <<crc % 256, crc \div 256>>

BinPayloads == { <<>>, <<7>>, <<200, 13, 0>> }

\* The bytes of a packet, one arrival each.
ByteWise(pkt) == [i \in 1..Len(pkt) |-> <<pkt[i]>>]

\* What answers aDBn!: nothing; a packet whole, byte by byte, in two
\* arrivals, cut short, with a gap inside, with either CRC byte or a payload
\* byte changed; a header announcing 1001 bytes, with and without anything
\* after the type byte; a header announcing 1000 bytes and no payload.
BinBuses ==
    { <<>>, << <<48, 233, 3, 2>> >>, << <<48, 233, 3, 2, 1, 2, 3>> >>,
      << <<48, 233>> >>, << <<48, 232, 3, 2>> >> }
    \cup { << Packet(3, p) >> : p \in BinPayloads }
    \cup { ByteWise(Packet(3, p)) : p \in BinPayloads }
    \cup { << SubSeq(Packet(3, p), 1, 2), SubSeq(Packet(3, p), 3, Len(p) + 6) >> :
             p \in BinPayloads }
    \cup { << SubSeq(Packet(3, p), 1, Len(p) + 5) >> : p \in BinPayloads }
    \cup { << SubSeq(Packet(3, p), 1, 4), <<>>, SubSeq(Packet(3, p), 5, Len(p) + 6) >> :
             p \in BinPayloads }
    \cup { << [Packet(3, p) EXCEPT ![Len(p) + 5] = (@ + 1) % 256] >> : p \in BinPayloads }
    \cup { << [Packet(3, p) EXCEPT ![Len(p) + 6] = (@ + 128) % 256] >> : p \in BinPayloads }
    \cup { << [Packet(3, p) EXCEPT ![5] = (@ + 1) % 256] >> : p \in BinPayloads \ {<<>>} }
    \cup { << [Packet(3, p) EXCEPT ![4] = 4] >> : p \in BinPayloads }

GetHvBinaryData ==
    \E addr \in {Asc("0"), Asc("$")} : \E page \in {12} : \E out_len \in {2} :
    \E bus \in BusesFor(sdi12_valid_address(addr), BinBuses) :
    \E r \in {sdi12_master_get_hv_binary_data(ctx, addr, page, out_len, bus)} :
        /\ ctx' = r.ctx
        /\ last' = [op |-> "get_hv_binary_data", args |-> <<addr, page, out_len, bus>>,
                    ret |-> r.ret, calls |-> r.calls, out |-> r.out]

NextMaster ==
    \/ Transact
    \/ Acknowledge
    \/ GetData
    \/ GetHvBinaryData

SpecMaster == InitMaster /\ [][NextMaster]_vars


(***************************************************************************)
(* sdi12_master_parse_meas_response is a function of its arguments: ctx    *)
(* holds the arguments drawn, last the result once it was applied.         *)
(***************************************************************************)
\* Measurement responses as the caller holds them: the characters and the
\* NUL that ends the string.
MeasTexts ==
    { Str(t) \o <<0>> :
        t \in { <<"0", "0", "0", "5">>, <<"0", "0", "0", "0", "5">>,
                <<"0", "1", "2", "0", "3", "4">>, <<"0", "9", "9", "9", "1", "2", "3">>,
                <<"0", "0", "1", "x", "5">>, <<"0", "0", "0", "1", "x", "7">>,
                <<"0", "0", "0", "1", "2", "3", "4", "5">>, <<>> } }

MeasTypes ==
    {SDI12_MEAS_STANDARD, SDI12_MEAS_VERIFICATION, SDI12_MEAS_CONCURRENT,
     SDI12_MEAS_CONTINUOUS, SDI12_MEAS_HIGHVOL_ASCII, SDI12_MEAS_HIGHVOL_BINARY}

InitParse ==
    /\ \E resp_str \in MeasTexts : \E len \in 0..(Len(resp_str) - 1) :
       \E type \in MeasTypes :
          ctx = [resp_str |-> resp_str, len |-> len, type |-> type]
    /\ last = [op |-> "input", ret |-> SDI12_OK, out |-> "unset"]

ParseMeasResponse ==
    \E r \in {sdi12_master_parse_meas_response(ctx.resp_str, ctx.len, ctx.type)} :
        /\ last.op = "input"
        /\ ctx' = ctx
        /\ last' = [op |-> "parse_meas_response", ret |-> r.ret, out |-> r.resp]

SpecParse == InitParse /\ [][ParseMeasResponse]_vars


(***************************************************************************)
(* sdi12_master_extended_multiline, one step per call of the recv hook.    *)
(* ctx holds the locals of the call: pc ("start", "loop": at the while     *)
(* test, "done": returned), resp_bufsize, total, lines (a uint8_t), and    *)
(* the outputs ret, resp_len and line_count once returned; recvs and       *)
(* nonempty count the calls of recv and those that returned bytes.         *)
(***************************************************************************)
LargeBuf == 300
\* The sizes of the caller's buffer, and the bytes one recv may return.
BufSizes  == {0, 1, 2, 3, LargeBuf}
RecvSizes == {0, 1, 2, RespBufMax}
\* The lengths of the extended command body: "aX" body "!" of 4 and of 21
\* characters.
XcmdLens  == {1, 18}

InitMultiline ==
    /\ ctx = [pc |-> "start", resp_bufsize |-> 0, total |-> 0, lines |-> 0,
              recvs |-> 0, nonempty |-> 0,
              ret |-> "unset", resp_len |-> "unset", line_count |-> "unset"]
    /\ last = [op |-> "init"]

\* Lines 528-551: the command is sent and the first line received.
MlStart ==
    \E resp_bufsize \in BufSizes : \E xlen \in XcmdLens : \E n \in RecvSizes :
    \E s \in {send_command([cmd_buf |-> <<>>],
                           <<48, 88>> \o [i \in 1..xlen |-> 65] \o <<33>>)} :
        /\ ctx.pc = "start"
        /\ last' = [op |-> "start"]
        /\ IF s.ret # SDI12_OK
           THEN ctx' = [ctx EXCEPT !.pc = "done", !.resp_bufsize = resp_bufsize,
                                   !.ret = s.ret]
           ELSE IF n = 0
           THEN ctx' = [ctx EXCEPT !.pc = "done", !.resp_bufsize = resp_bufsize,
                                   !.recvs = 1, !.ret = SDI12_ERR_TIMEOUT]
           ELSE ctx' = [ctx EXCEPT !.pc = "loop", !.resp_bufsize = resp_bufsize,
                                   !.recvs = 1, !.nonempty = 1,
                                   !.total = Min(n, resp_bufsize), !.lines = 1]

\* Lines 554-566: one turn of the while loop, which ends at a recv of 0
\* bytes.
MlRecv ==
    \E n \in RecvSizes :
        /\ ctx.pc = "loop"
        /\ ctx.total < ctx.resp_bufsize
        /\ last' = [op |-> "recv"]
        /\ IF n = 0
           THEN ctx' = [ctx EXCEPT !.pc = "done", !.recvs = @ + 1,
                                   !.ret = SDI12_OK, !.resp_len = ctx.total,
                                   !.line_count = ctx.lines]
           ELSE ctx' = [ctx EXCEPT !.recvs = @ + 1, !.nonempty = @ + 1,
                                   !.total = @ + Min(n, ctx.resp_bufsize - ctx.total),
                                   !.lines = (@ + 1) % 256]

\* Lines 554, 568-570: the while test fails and the function returns.
MlReturn ==
    /\ ctx.pc = "loop"
    /\ ~(ctx.total < ctx.resp_bufsize)
    /\ last' = [op |-> "return"]
    /\ ctx' = [ctx EXCEPT !.pc = "done", !.ret = SDI12_OK,
                          !.resp_len = ctx.total, !.line_count = ctx.lines]

NextMultiline == MlStart \/ MlRecv \/ MlReturn

\* The recv hook returns within its timeout, so the call keeps stepping.
SpecMultiline == InitMultiline /\ [][NextMultiline]_vars /\ WF_vars(NextMultiline)


(***************************************************************************)
(* sdi12_crc_append as a function of its arguments: ctx holds the text and *)
(* the size of the buffer drawn, last the result once it was applied.      *)
(***************************************************************************)
MaxTextLen == 3
\* The texts: up to MaxTextLen characters of '0', '+', CR and LF.
CrcTexts ==
    UNION { [1..n -> {48, 43, 13, 10}] : n \in 0..MaxTextLen }

InitCrc ==
    /\ \E buf \in CrcTexts : \E buflen \in {5, 7, 16} :
          ctx = [buf |-> buf, buflen |-> buflen]
    /\ last = [op |-> "input", err |-> SDI12_OK, buf |-> <<>>]

CrcAppend ==
    \E r \in {sdi12_crc_append(ctx.buf, ctx.buflen)} :
        /\ last.op = "input"
        /\ Len(ctx.buf) < ctx.buflen
        /\ ctx' = ctx
        /\ last' = [op |-> "crc_append", err |-> r.err, buf |-> r.buf]

SpecCrc == InitCrc /\ [][CrcAppend]_vars


(***************************************************************************)
(* sdi12_master_parse_data_values as a function of the response text: ctx  *)
(* holds two texts A and B, last what the parser returned for A, for B and *)
(* for A followed by B (CRC stripping off, room for SDI12_C_MAX_VALUES).   *)
(***************************************************************************)
\* The characters of the texts: '+', '-', '5', '.', ' '.
ValueChars == {43, 45, 53, 46, 32}
\* A: up to MaxTextLen characters, and two values longer than
\* SDI12_VALUE_MAX_CHARS; B: up to two characters.
ValueTextsA ==
    UNION { [1..n -> ValueChars] : n \in 0..MaxTextLen }
    \cup { Str(<<"+", "1", "2", "3", "4", "5", "6", "7", "8", "9", "0">>),
           Str(<<"-", "1", ".", "2", "3", "4", "5", "6", "7", "8", "9">>) }
ValueTextsB == UNION { [1..n -> ValueChars] : n \in 0..2 }

InitValues ==
    /\ \E A \in ValueTextsA : \E B \in ValueTextsB : ctx = [A |-> A, B |-> B]
    /\ last = [op |-> "input"]

ParseDataValues ==
    \E a  \in {sdi12_master_parse_data_values(ctx.A, Len(ctx.A), SDI12_C_MAX_VALUES, FALSE)} :
    \E b  \in {sdi12_master_parse_data_values(ctx.B, Len(ctx.B), SDI12_C_MAX_VALUES, FALSE)} :
    \E ab \in {sdi12_master_parse_data_values(ctx.A \o ctx.B, Len(ctx.A) + Len(ctx.B),
                                              SDI12_C_MAX_VALUES, FALSE)} :
        /\ last.op = "input"
        /\ ctx' = ctx
        /\ last' = [op |-> "parse_data_values", a |-> a, b |-> b, ab |-> ab]

SpecValues == InitValues /\ [][ParseDataValues]_vars


(***************************************************************************)
(* Properties of the master.                                               *)
(***************************************************************************)
\* What the first call of the recv hook returns from a bus.
FirstAnswer(bus) == recv(bus, RespBufMax).data

\* The hook calls of one transaction, in order.
TransactionCalls(cmd, timeout_ms) ==
    << <<"set_direction", "TX">>, <<"send", cmd>>, <<"set_direction", "RX">>,
       <<"recv", RespBufMax, timeout_ms>> >>

\* C24: every transaction calls, in this order and once each,
\* set_direction(TX), send(command), set_direction(RX) and recv(timeout);
\* when recv returns 0 bytes the transaction returns ERR_TIMEOUT without
\* sending or receiving again, and otherwise OK with the bytes received; a
\* command of more than SDI12_CMD_MAX_CHARS characters is refused with
\* ERR_INVALID_COMMAND before any hook is called.  Acknowledge and get_data
\* perform the same transaction with their own command.
C24_TransactionOrder ==
    [][ /\ last'.op = "transact"
           => LET cmd        == last'.args[1]
                  timeout_ms == last'.args[2]
                  answer     == FirstAnswer(last'.args[3])
              IN  IF Len(cmd) > SDI12_CMD_MAX_CHARS
                  THEN /\ last'.ret = SDI12_ERR_INVALID_COMMAND
                       /\ last'.calls = <<>>
                       /\ ctx' = ctx
                  ELSE /\ last'.calls = TransactionCalls(cmd, timeout_ms)
                       /\ ctx'.cmd_buf = cmd
                       /\ IF answer = <<>>
                          THEN last'.ret = SDI12_ERR_TIMEOUT
                          ELSE /\ last'.ret = SDI12_OK
                               /\ ctx'.resp_len = Len(answer)
                               /\ ctx'.resp_buf = answer
        /\ last'.op = "acknowledge" /\ last'.calls # <<>>
           => last'.calls = TransactionCalls(<<last'.args[1], 33>>,
                                             SDI12_RESPONSE_TIMEOUT_MS)
        /\ last'.op = "get_data" /\ last'.calls # <<>>
           => last'.calls = TransactionCalls(
                                <<last'.args[1], 68>> \o DecDigits(last'.args[2]) \o <<33>>,
                                SDI12_RESPONSE_TIMEOUT_MS)
      ]_vars

\* A transaction whose first recv timed out while a response came later.
C24_Witness ==
    /\ last.op = "transact"
    /\ last.args[3] = << <<>>, Line(<<"0">>) >>
    /\ last.ret = SDI12_ERR_TIMEOUT
    /\ Len(last.calls) = 4

\* C25: sdi12_master_acknowledge refuses an invalid address with
\* ERR_INVALID_ADDRESS and no hook call; for a valid address it returns OK,
\* with present false when the receive timed out and otherwise present true
\* exactly when the first byte received is the address asked for.
C25_Acknowledge ==
    last.op = "acknowledge"
    => LET addr   == last.args[1]
           answer == FirstAnswer(last.args[2])
       IN  IF ~sdi12_valid_address(addr)
           THEN /\ last.ret = SDI12_ERR_INVALID_ADDRESS
                /\ last.calls = <<>>
                /\ last.out.present = "unset"
           ELSE /\ last.ret = SDI12_OK
                /\ last.out.present = (answer # <<>> /\ answer[1] = addr)

\* An acknowledge answered by a sensor of another address.
C25_Witness ==
    /\ last.op = "acknowledge"
    /\ last.args[1] = Asc("0")
    /\ FirstAnswer(last.args[2]) = Line(<<"1">>)
    /\ last.ret = SDI12_OK
    /\ last.out.present = FALSE

\* C26: sdi12_master_get_data with crc = TRUE verifies the CRC of the
\* response it received: it returns ERR_CRC_MISMATCH when the three CRC
\* characters do not match the address and values before them, and OK with
\* the parsed values only when they do.
C26_GetDataVerifiesCrc ==
    /\ last.op = "get_data"
    /\ last.args[3]
    /\ sdi12_valid_address(last.args[1])
    /\ FirstAnswer(last.args[4]) # <<>>
    => LET answer == FirstAnswer(last.args[4])
       IN  IF sdi12_crc_verify(answer)
           THEN /\ last.ret = SDI12_OK
                /\ last.out.values
                     = ParseValues(answer, Len(answer) - 5, 1, SDI12_C_MAX_VALUES, <<>>)
           ELSE last.ret = SDI12_ERR_CRC_MISMATCH

RECURSIVE Available(_)
\* The bytes a bus delivers before a call of recv returns 0: its arrivals up
\* to the first empty one.
Available(bus) ==
    IF bus = <<>> \/ Head(bus) = <<>> THEN <<>>
    ELSE Head(bus) \o Available(Tail(bus))

\* The recv calls among hook calls, as the numbers of bytes asked for.
RecvAsked(calls) ==
    LET rs == SelectSeq(calls, LAMBDA c : c[1] = "recv")
    IN  [i \in 1..Len(rs) |-> rs[i][2]]

\* C27: sdi12_master_get_hv_binary_data on a valid address returns
\* ERR_TIMEOUT when a recv returns 0 before the packet is complete,
\* ERR_BUFFER_OVERFLOW when the header announces N > 1000 payload bytes,
\* having asked for the 3 header bytes and the type byte only, and
\* otherwise OK exactly when the two bytes after the payload are the CRC-16,
\* low byte first, of address, length bytes, type and the N payload bytes,
\* with the type, the length N and the payload as outputs;
\* ERR_CRC_MISMATCH when they differ.
C27_BinaryPacketCrc ==
    last.op = "get_hv_binary_data" /\ sdi12_valid_address(last.args[1])
    => LET got == Available(last.args[4])
           N   == got[2] + 256 * got[3]
           crc == sdi12_crc16(SubSeq(got, 1, N + 4))
       IN  IF Len(got) < 4 THEN last.ret = SDI12_ERR_TIMEOUT
           ELSE IF N > SDI12_BIN_MAX_PAYLOAD
           THEN /\ last.ret = SDI12_ERR_BUFFER_OVERFLOW
                /\ LET asked == RecvAsked(last.calls)
                   IN  asked[Len(asked)] = 1
           ELSE IF Len(got) < N + 6 THEN last.ret = SDI12_ERR_TIMEOUT
           ELSE IF got[N + 5] = crc % 256 /\ got[N + 6] = crc \div 256
           THEN /\ last.ret = SDI12_OK
                /\ last.out = [type    |-> got[4],
                               payload |-> SubSeq(got, 5, 4 + Min(N, last.args[3])),
                               len     |-> N]
           ELSE last.ret = SDI12_ERR_CRC_MISMATCH

\* A packet of three payload bytes refused for its CRC.
C27_Witness ==
    /\ last.op = "get_hv_binary_data"
    /\ last.ret = SDI12_ERR_CRC_MISMATCH
    /\ Len(Available(last.args[4])) = 9

\* The digits the count field of a measurement response has for a type.
MeasCountWidth(type) ==
    IF type \in {SDI12_MEAS_STANDARD, SDI12_MEAS_VERIFICATION} THEN 1
    ELSE IF type \in {SDI12_MEAS_CONCURRENT, SDI12_MEAS_CONTINUOUS} THEN 2
    ELSE 3

\* C28: sdi12_master_parse_meas_response returns OK exactly when the first
\* len characters of the response hold the address, three ttt digits and the
\* whole count field of the type (1 digit for Standard and Verification, 2
\* for Concurrent and Continuous, 3 for the high-volume types); a shorter
\* response is refused and the characters after the first len play no part.
C28_ParseMeasLength ==
    last.op = "parse_meas_response"
    => LET width == MeasCountWidth(ctx.type)
           given == SubSeq(ctx.resp_str, 1, ctx.len)
       IN  (last.ret = SDI12_OK)
           <=> /\ ctx.len >= 4 + width
               /\ \A i \in 2..(4 + width) : IsDigit(given[i])

\* The call of sdi12_master_extended_multiline returns.
MultilineTerminates == <>(ctx.pc = "done")

\* What the call has returned once it has: ERR_TIMEOUT after a first recv
\* of 0 bytes, else OK with *resp_len <= resp_bufsize and *line_count the
\* number of recv results that held bytes; and recv was called at most
\* resp_bufsize + 1 times.
MultilineResult ==
    ctx.pc = "done" /\ ctx.recvs > 0
    => /\ ctx.recvs <= ctx.resp_bufsize + 1
       /\ IF ctx.nonempty = 0
          THEN ctx.ret = SDI12_ERR_TIMEOUT /\ ctx.recvs = 1
          ELSE /\ ctx.ret = SDI12_OK
               /\ ctx.resp_len <= ctx.resp_bufsize
               /\ ctx.line_count = ctx.nonempty

\* C29: every call of sdi12_master_extended_multiline terminates, having
\* stopped at the first recv of 0 bytes or when resp_bufsize bytes are
\* stored; it returns ERR_TIMEOUT when the first recv returned 0 bytes and
\* otherwise OK with *resp_len <= resp_bufsize and *line_count equal to the
\* number of non-empty recv results, after at most resp_bufsize + 1 calls of
\* recv.
C29_MultilineTerminates == MultilineTerminates /\ []MultilineResult

\* C30: for every text, empty or not, with or without CR LF at its end, to
\* which sdi12_crc_append returns OK, sdi12_crc_verify accepts the result.
C30_AppendThenVerify ==
    last.op = "crc_append" /\ last.err = SDI12_OK
    => sdi12_crc_verify(last.buf)

\* C31 as stated: for all texts A and B the values parsed from A followed
\* by B are the values parsed from A followed by the values parsed from B.
C31_ConcatenationAllTexts ==
    last.op = "parse_data_values"
    => /\ last.ab.ret = SDI12_OK
       /\ last.ab.values = last.a.values \o last.b.values

\* C31, amended: the values parsed from A followed by B are the values
\* parsed from A followed by the values parsed from B whenever B is empty or
\* begins with a character other than a digit and the decimal point, that
\* is, whenever B does not continue a value A ends in.
C31_ConcatenationAtValueStart ==
    /\ last.op = "parse_data_values"
    /\ ctx.B = <<>> \/ ~(IsDigit(ctx.B[1]) \/ ctx.B[1] = 46)
    => /\ last.ab.ret = SDI12_OK
       /\ last.ab.values = last.a.values \o last.b.values
       /\ last.ab.count = last.a.count + last.b.count

\* A text of more than nine characters holding one value, followed by a
\* text holding another.
C31_Witness ==
    /\ last.op = "parse_data_values"
    /\ Len(ctx.A) > SDI12_VALUE_MAX_CHARS
    /\ last.a.count = 1 /\ last.b.count = 1 /\ last.ab.count = 2


(***************************************************************************)
(* Further properties of the sensor.                                       *)
(***************************************************************************)
\* C32: the data cache is written only by the synchronous read of a
\* measurement command (M, C, V, HA, HB) and by measurement_done: a call of
\* process with any other command, a continuous aRn! or aRCn! in particular,
\* received while no measurement is pending (Ready, DataReady) leaves the
\* cached values as they were and with them what aD0!, aD1! and aDB0! are
\* answered (values, page budget, CRC characters).
C32_CacheWrittenByMeasurementOnly ==
    [][ last'.op = "process" /\ ~IsMeasurementCmd(last'.cmd)
        /\ ctx.state \in {SDI12_STATE_READY, SDI12_STATE_DATA_READY}
        => /\ ctx'.data_cache = ctx.data_cache
           /\ DataReplies(ctx') = DataReplies(ctx) ]_vars

\* The reply holds the address only: the address, CRC characters when they
\* were requested, CR LF.
AddressOnly(c, resp) ==
    resp = Framed(<<c.address>>, c.crc_requested)

\* C33: in every reachable state in which a deferred measurement is
\* outstanding (Measuring, MeasuringConcurrent) data_available is false, and
\* a data request aDn! handled in that state returns the address only.
C33_MeasuringHasNoData ==
    ctx.state \in {SDI12_STATE_MEASURING, SDI12_STATE_MEASURING_C}
    => /\ ~ctx.data_available
       /\ \A p \in {0, 1} :
             LET r == sdi12_sensor_process(ctx, <<ctx.address, 68, 48 + p, 33>>,
                                           DefaultAnswer)
             IN  Len(r.sent) = 1 /\ AddressOnly(r.ctx, r.sent[1])

\* The identify and metadata commands swept, without the address: aI!, and
\* for every kind and group the identify-measurement command without _nnn
\* and with _001 and _009.
MetadataBodies ==
    { Str(<<"I", "!">>) }
    \cup { <<73>> \o kind.text \o GroupText(kind, g) \o <<33>> :
             kind \in MetaKinds, g \in {0, 1} }
    \cup { <<73>> \o kind.text \o GroupText(kind, g) \o <<95>> \o ZeroPad(nnn, 3) \o <<33>> :
             kind \in MetaKinds, g \in {0, 1}, nnn \in {1, 9} }

\* C34: an identify or metadata command received outside MeasuringConcurrent
\* leaves state, pending measurement type and group, crc_requested, the
\* data cache and data_available as they were, so that the data requests
\* are answered afterwards as they were before (values and CRC characters).
C34_MetadataChangesNothing ==
    ctx.state # SDI12_STATE_MEASURING_C
    => \A body \in MetadataBodies :
          LET r == sdi12_sensor_process(ctx, <<ctx.address>> \o body, DefaultAnswer)
          IN  /\ r.ret = SDI12_OK
              /\ r.ctx.state = ctx.state
              /\ r.ctx.pending_meas_type = ctx.pending_meas_type
              /\ r.ctx.pending_meas_group = ctx.pending_meas_group
              /\ r.ctx.crc_requested = ctx.crc_requested
              /\ r.ctx.data_cache = ctx.data_cache
              /\ r.ctx.data_available = ctx.data_available
              /\ DataReplies(r.ctx) = DataReplies(ctx)

\* The fields C35 speaks of.
ContextCore(c) ==
    <<c.state, c.address, c.pending_meas_type, c.pending_meas_group,
      c.data_cache, c.data_available>>

\* C35: a sdi12_sensor_process call that returns NotAddressed,
\* InvalidCommand or InvalidAddress leaves state, address, pending
\* measurement, data cache and data_available as they were before the
\* call, in every state, MeasuringConcurrent included.
C35_ErrorLeavesContext ==
    [][ /\ last'.op = "process"
        /\ last'.ret \in {SDI12_ERR_NOT_ADDRESSED, SDI12_ERR_INVALID_COMMAND,
                          SDI12_ERR_INVALID_ADDRESS}
        => ContextCore(ctx') = ContextCore(ctx) ]_vars

\* C36: whenever the state is DataReady, data_available is true and the
\* reply to aD0! reports data, that is, carries a value.
C36_DataReadyReportsData ==
    ctx.state = SDI12_STATE_DATA_READY
    => /\ ctx.data_available
       /\ ~HasNoValues(ReplyToD0(ctx)[1])

(***************************************************************************)
(* The sensor with the service requests it owes counted                    *)
(***************************************************************************)
\* The reply answers a measurement command with ttt > 0: a t t t n.. CR LF
\* with ttt other than 000.
AnsweredLater(sent) ==
    /\ Len(sent) = 1
    /\ Len(sent[1]) >= 7
    /\ SubSeq(sent[1], 2, 4) # <<48, 48, 48>>

\* The call was a Standard or Verification measurement command (aM.., aV!)
\* to this sensor, answered with ttt > 0.
DeferredStdOrVerif(c, cmd, r) ==
    /\ Len(cmd) >= 2 /\ cmd[1] = c.address /\ cmd[2] \in {77, 86}
    /\ r.ret = SDI12_OK
    /\ AnsweredLater(r.sent)

\* The engine call emitted a service request: the service_request hook was
\* called, or measurement_done sent a response.
ServiceRequested(op, r) ==
    \/ \E i \in 1..Len(r.calls) : r.calls[i][1] = "service_request"
    \/ op = "measurement_done" /\ r.sent # <<>>

\* The record of an engine call, with the service requests still owed:
\* 1 after a deferred Standard/Verification command, 0 after a break,
\* one less after each service request (-1: one more than was owed).
Owing(op, cmd, values, r, owed) ==
    [op |-> op, cmd |-> cmd, values |-> values, ret |-> r.ret, sent |-> r.sent,
     calls |-> r.calls, before |-> ctx.state, srq |-> ServiceRequested(op, r),
     owed |-> IF ServiceRequested(op, r) THEN (IF owed > 0 THEN owed - 1 ELSE -1)
              ELSE owed]

InitSrq ==
    /\ \E cb \in HookSets :
           ctx = SetupXcmds(SetupParams(sdi12_sensor_init(Addr0, cb, 0)))
    /\ last = [op |-> "init", cmd |-> <<>>, values |-> <<>>, ret |-> SDI12_OK,
               sent |-> <<>>, calls |-> <<>>, before |-> SDI12_STATE_READY,
               srq |-> FALSE, owed |-> 0]

ProcessSrq ==
    \E cmd \in LifeCycleCmds : \E h \in HookAnswers(ctx, cmd) :
        \E r \in {sdi12_sensor_process(ctx, cmd, h)} :
            /\ ctx' = r.ctx
            /\ last' = Owing("process", cmd, <<>>, r,
                             IF DeferredStdOrVerif(ctx, cmd, r) THEN 1 ELSE last.owed)

MeasurementDoneSrq ==
    \E values \in DoneValues :
        \E r \in {sdi12_sensor_measurement_done(ctx, values)} :
            /\ ctx' = r.ctx
            /\ last' = Owing("measurement_done", <<>>, values, r, last.owed)

BreakSrq ==
    /\ ctx' = sdi12_sensor_break(ctx)
    /\ last' = Owing("break", <<>>, <<>>, [ret |-> SDI12_OK, sent |-> <<>>, calls |-> <<>>], 0)

NextSrq ==
    \/ ProcessSrq
    \/ MeasurementDoneSrq
    \/ BreakSrq

SpecSrq == InitSrq /\ [][NextSrq]_vars

\* C37: in any interleaving of process, measurement_done and break calls a
\* service request is emitted only by a measurement_done call made in state
\* Measuring, and never more of them than are owed: one for each Standard
\* or Verification measurement command answered with ttt > 0, none after a
\* break until such a command is processed again.
C37_ServiceRequestOwed ==
    /\ last.srq => last.op = "measurement_done" /\ last.before = SDI12_STATE_MEASURING
    /\ last.owed >= 0

\* A measurement_done call has emitted the one service request owed.
C37_Witness ==
    /\ last.op = "measurement_done" /\ last.srq
    /\ last.owed = 0
    /\ ctx.state = SDI12_STATE_DATA_READY

\* The wildcard query, with and without its '!'.
QueryCmds == { Str(<<"?", "!">>), Str(<<"?">>) }

\* C38: the wildcard query ?! received in MeasuringConcurrent is answered
\* with the address and CR LF and does not abort the concurrent
\* measurement: state, pending measurement, data cache and data_available
\* (the whole context) are unchanged, and a measurement_done call made
\* afterwards still moves the sensor to DataReady with the values it
\* brings; checked in every reachable context and on the queries of the run.
C38_QueryKeepsConcurrent ==
    /\ ctx.state = SDI12_STATE_MEASURING_C
       => \A cmd \in QueryCmds :
             LET r == sdi12_sensor_process(ctx, cmd, DefaultAnswer)
             IN  /\ r.ret = SDI12_OK
                 /\ r.sent = << <<ctx.address>> \o CRLF >>
                 /\ r.calls = <<>>
                 /\ r.ctx = ctx
                 /\ \A values \in DoneValues :
                       LET d == sdi12_sensor_measurement_done(r.ctx, values)
                       IN  /\ d.ctx.state = SDI12_STATE_DATA_READY
                           /\ d.ctx.data_available
                           /\ d.ctx.data_cache = values
                           /\ d.sent = <<>> /\ d.calls = <<>>
    /\ last.op = "process" /\ last.cmd \in QueryCmds
       /\ last.before = SDI12_STATE_MEASURING_C
       => /\ ctx.state = SDI12_STATE_MEASURING_C
          /\ ~ctx.data_available
          /\ last.sent = << <<ctx.address>> \o CRLF >>

\* The query has been answered while a concurrent measurement is pending.
C38_Witness ==
    /\ last.op = "process" /\ last.cmd = Str(<<"?", "!">>)
    /\ last.before = SDI12_STATE_MEASURING_C
    /\ last.sent = << <<ctx.address>> \o CRLF >>
    /\ ctx.state = SDI12_STATE_MEASURING_C

\* The reply of the sensor in context c to the parameter-metadata command
\* a I <kind> _001 !.
MetadataReply(c, kind) ==
    sdi12_sensor_process(c, <<c.address, 73>> \o kind \o Str(<<"_", "0", "0", "1", "!">>),
                         DefaultAnswer).sent

\* 'a,shef,units;' for the first parameter of group 0.
FirstParamText(c) ==
    <<c.address, 44>> \o c.params[1].shef \o <<44>> \o c.params[1].units \o <<59>>

\* C39: a parameter-metadata reply carries a CRC only for the CRC variants
\* (aIMC_nnn!, aICC_nnn!, aIRC0_nnn!): the replies to aIM_001! and aIC_001!
\* are both 'a,shef,units;' followed directly by CR LF.
C39_MetadataCrcOnlyForCrcVariants ==
    /\ \A kind \in {Str(<<"M">>), Str(<<"C">>)} :
          MetadataReply(ctx, kind) = << FirstParamText(ctx) \o CRLF >>
    /\ \A kind \in {Str(<<"M", "C">>), Str(<<"C", "C">>), Str(<<"R", "C", "0">>)} :
          MetadataReply(ctx, kind) = << Framed(FirstParamText(ctx), TRUE) >>

\* C40: every value the sensor formats for a data page, whether read_param
\* returned it or measurement_done brought it, prints in at most 9
\* characters, so that the bytes format_data_page copies for it are at
\* most the 9 characters of the value buffer.
C40_ValueFitsValueBuffer ==
    \A k \in 1..Len(ctx.data_cache) :
        LET text == format_value(ctx.data_cache[k])
        IN  /\ Len(text) <= SDI12_VALUE_MAX_CHARS
            /\ Len(VbufBytes(text)) <= SDI12_VALUE_MAX_CHARS


=============================================================================
